---- MODULE Spec2Model ----
(***************************************************************************)
(* Model of the generation-and-fallback client of LingoQuest / LingoLife   *)
(* (src/services/geminiService.ts): the localStorage cache, the calls to   *)
(* the external model, the normalisation of its answers and the fallback   *)
(* synthesizers.  An async call is two atomic steps: the synchronous part  *)
(* up to `await ai.models.generateContent` (Begin...) and the continuation *)
(* after the await (Resume...).  Several calls may be in flight at once.   *)
(***************************************************************************)
EXTENDS Integers, Sequences, FiniteSets, TLC

\* ---------------------------------------------------------------- bounds
MaxCalls == 2      \* generation calls issued after a page load
MaxCount == 2      \* largest `count` argument drawn
MaxClock == 1      \* largest value Date.now() reaches
MaxItems == 1      \* largest number of items in a generated scene

Calls  == 1..MaxCalls
Counts == 1..MaxCount
RespLens == 0..(MaxCount + 1)

\* ---------------------------------------------------------------- strings
\* A string is a sequence of one-character strings.
UpperChars == <<"A","B","C","D","E","F","G","H","I","J","K","L","M",
                "N","O","P","Q","R","S","T","U","V","W","X","Y","Z">>
LowerChars == <<"a","b","c","d","e","f","g","h","i","j","k","l","m",
                "n","o","p","q","r","s","t","u","v","w","x","y","z">>
WhitespaceChars == {" ", "\t", "\n"}

\* String.prototype.toLowerCase, one character
LowerChar(ch) ==
  IF \E i \in DOMAIN UpperChars : UpperChars[i] = ch
  THEN LowerChars[CHOOSE i \in DOMAIN UpperChars : UpperChars[i] = ch]
  ELSE ch

toLowerCase(s) == [i \in DOMAIN s |-> LowerChar(s[i])]

\* s.replace(/\s/g, '_'): every whitespace character becomes one underscore
replaceWsUnderscore(s) ==
  [i \in DOMAIN s |-> IF s[i] \in WhitespaceChars THEN "_" ELSE s[i]]

IsNotWs(ch) == ch \notin WhitespaceChars

\* s.replace(/\s+/g, ''): every run of whitespace is removed
replaceWsEmpty(s) == SelectSeq(s, IsNotWs)

\* names the callers pass
Kitchen      == <<"K","i","t","c","h","e","n">>
kitchen      == <<"k","i","t","c","h","e","n">>
kitchenSpace == <<"k","i","t","c","h","e","n"," ">>
Garden       == <<"G","a","r","d","e","n">>
LocationNames == {Kitchen, kitchen, kitchenSpace, Garden}
TopicNames    == {<<"C","a","v","e"," ","1">>}
QuestionDifficulties == {"Easy"}

\* ---------------------------------------------------------------- texts
\* A text field of a record: content written by the external model
\* (token tok, element i), a template of this program, undefined or null.
Text(src, tok, i) == [src |-> src, tok |-> tok, i |-> i]
Undefined == Text("undefined", 0, 0)
Null      == Text("null", 0, 0)
ModelText(tok, i) == Text("model", tok, i)

\* ---------------------------------------------------------------- types.ts
EASY   == "Easy"
MEDIUM == "Medium"
HARD   == "Hard"
READING   == "READING"
LISTENING == "LISTENING"
SPEAKING  == "SPEAKING"
WRITING   == "WRITING"

WORLD_THEMES == <<
  "Village of Beginnings (Daily Basics)",
  "Forest of Family & Roots",
  "Market City (Shopping & Food)",
  "Port of Travelers (Directions)",
  "Valley of Vitality (Health)",
  "Tower of Commerce (Work)",
  "Ocean of Emotions (Feelings)",
  "Cyber Citadel (Technology)",
  "Senate of Debate (Advanced)",
  "Summit of Mastery (Literature)" >>

Min(a, b) == IF a < b THEN a ELSE b

\* ---------------------------------------------------------------- responses
\* What `await ai.models.generateContent(...)` produces: a rejection
\* (status "error") or a response whose text is a payload, possibly inside
\* a markdown code fence.  Payload shapes:
\*   "empty"   response.text is undefined or ""
\*   "garbage" text that is not JSON                  ("not json")
\*   "null"    the JSON literal null
\*   "scalar"  a JSON number
\*   "object"  a JSON object; desc: it has a description; hasItems: it has
\*             an `items` array of n elements; theme, exits: the Location
\*             fields ({} has none of them)
\*   "array"   a JSON array of n elements
\* Elements of an array are all of one kind:
\*   "obj"  an object with every field of the schema
\*   "bare" an object with the required text fields only (no options,
\*          no usagePatterns)
\*   "num"  a number ([1,2,3])
\*   "null" null
\* The content the model writes differs from request to request: the text
\* written for element i in answer to the request of call c is ModelText(c, i).
ElemKinds == {"obj", "bare", "num", "null"}
Themes    == {"bg-orange-50", "bg-blue-50", "bg-green-50", "bg-slate-50",
              "bg-yellow-50", "bg-pink-50", "bg-indigo-50"}

Payload(shape, desc, hasItems, n, elem, theme, exits) ==
  [shape |-> shape, desc |-> desc, hasItems |-> hasItems, n |-> n,
   elem |-> elem, theme |-> theme, exits |-> exits, tok |-> 0]

\* a payload that is not a container of records
Plain(shape) == Payload(shape, FALSE, FALSE, 0, "obj", "undefined", "absent")

\* [e, e, ...] of n elements
Array(n, elem) == Payload("array", FALSE, FALSE, n, elem, "undefined", "absent")

\* the payloads of the malformed-payload cases: "not json", "{}", "null", "[1,2,3]"
NotJson     == Plain("garbage")
EmptyObj    == Plain("object")
NullJson    == Plain("null")
OneTwoThree == Array(3, "num")
MalformedPayloads == {NotJson, EmptyObj, NullJson, OneTwoThree}

PlainPayloads == { Plain(s) : s \in {"empty", "garbage", "null", "scalar", "object"} }

ArrayPayloads ==
  {Array(0, "obj"), OneTwoThree} \cup
  { Array(n, e) : n \in RespLens \ {0}, e \in ElemKinds }

\* { "items": [...] }
WrappedPayloads ==
  { Payload("object", FALSE, TRUE, n, "obj", "undefined", "absent") : n \in RespLens }

\* { description, items?, exits?, theme? }; a theme is one of the schema's
\* enum, missing, or a text outside the enum (the answer is not validated)
OffSchemaTheme == "bg-red-500"
DrawnThemes == {"undefined", "bg-blue-50", OffSchemaTheme}
ScenePayloads ==
  { Payload("object", TRUE, FALSE, 0, "obj", th, x)
      : th \in DrawnThemes, x \in {"absent", "some"} } \cup
  { Payload("object", TRUE, TRUE, n, e, "bg-blue-50", "some")
      : n \in 0..MaxItems, e \in ElemKinds }

Response(status, fence, payload) ==
  [status |-> status, fence |-> fence, payload |-> payload]

RequestError == Response("error", "none", Plain("empty"))

\* the response as the answer to the request of call c
AnswerTo(c, resp) == [resp EXCEPT !.payload.tok = c]

\* every answer to a request: the rejection, each payload as it is, and
\* one payload inside a code fence that cleanJson strips ("fenced") and
\* inside one whose closing fence is followed by a newline ("fencedNL")
Responses(payloads, p0) ==
  {RequestError} \cup { Response("ok", "none", p) : p \in payloads }
                 \cup { Response("ok", f, p0) : f \in {"fenced", "fencedNL"} }

ArrayResponses ==
  Responses(PlainPayloads \cup ArrayPayloads \cup WrappedPayloads, Array(1, "obj"))
SceneResponses ==
  Responses(PlainPayloads \cup ScenePayloads \cup {OneTwoThree},
            Payload("object", TRUE, TRUE, 1, "obj", "bg-blue-50", "some"))

\* cleanJson: strips a leading ```json / ``` and a trailing ``` that ends the
\* text, then trims.  A closing fence followed by a newline is not at the end
\* of the text ($ without the m flag), so it stays and the text is not JSON.
cleanJson(fence, payload) ==
  IF fence = "fencedNL" /\ payload.shape # "empty"
  THEN [payload EXCEPT !.shape = "garbage"]
  ELSE payload

\* JSON.parse(cleanJson(response.text || dflt)): the parsed value, or threw
\* dflt is "array" for "[]" and "object" for "{}"
JSONparse(fence, payload, dflt) ==
  LET p == IF payload.shape = "empty"
           THEN Plain(dflt)
           ELSE cleanJson(fence, payload)
  IN [threw |-> p.shape = "garbage", value |-> p]

\* ---------------------------------------------------------------- cache
\* localStorage under CACHE_PREFIX, one map per key family: topics_<start>_<count>,
\* leaderboard_<name>, loc_<name>.  An item is the JSON text, given by the
\* value it parses back to.
TopicStarts == {1, 10}
TopicKeys == TopicStarts \X Counts

NoItem == [present |-> FALSE, json |-> <<>>]
Item(json) == [present |-> TRUE, json |-> json]

\* JSON.stringify then JSON.parse of one value: a key whose value is
\* undefined is left out of an object (and reads back as undefined); an
\* undefined element of an array is written as null
RoundTripField(t) == t
RoundTripElem(t) == IF t = Undefined THEN Null ELSE t

\* getFromCache without its try/catch: a read error escapes
getFromCacheNoCatch(store, key, readOk) ==
  IF ~readOk THEN [threw |-> TRUE, hit |-> FALSE, value |-> <<>>]
  ELSE IF store[key].present
       THEN [threw |-> FALSE, hit |-> TRUE,  value |-> store[key].json]
       ELSE [threw |-> FALSE, hit |-> FALSE, value |-> <<>>]

\* getFromCache: localStorage.getItem + JSON.parse inside try/catch; a read
\* error gives null.  hit is the truthiness the callers test (an item is a
\* non-empty text, the array or object it parses to is truthy).
getFromCache(store, key, readOk) ==
  IF readOk /\ store[key].present
  THEN [threw |-> FALSE, hit |-> TRUE,  value |-> store[key].json]
  ELSE [threw |-> FALSE, hit |-> FALSE, value |-> <<>>]

\* a saveToCache that keeps an item already stored under the key
saveToCacheFirstWins(store, key, json, writeOk) ==
  IF writeOk
  THEN [threw |-> FALSE, write |-> "ok",
        store |-> IF store[key].present THEN store ELSE [store EXCEPT ![key] = Item(json)]]
  ELSE [threw |-> FALSE, write |-> "failed", store |-> store]

\* saveToCache without its try/catch: a write error escapes
saveToCacheNoCatch(store, key, json, writeOk) ==
  IF writeOk
  THEN [threw |-> FALSE, write |-> "ok", store |-> [store EXCEPT ![key] = Item(json)]]
  ELSE [threw |-> TRUE, write |-> "failed", store |-> store]

\* saveToCache: localStorage.setItem(key, JSON.stringify(data)) inside
\* try/catch; a write error (quota) is logged and the store stays as it was
saveToCache(store, key, json, writeOk) ==
  IF writeOk
  THEN [threw |-> FALSE, write |-> "ok", store |-> [store EXCEPT ![key] = Item(json)]]
  ELSE [threw |-> FALSE, write |-> "failed", store |-> store]

\* ---------------------------------------------------------------- state
VARIABLES
  app,     \* which application this page runs: "quest" (LingoQuest) or "life" (LingoLife)
  cache,   \* localStorage: [topics, leaderboard, questions, loc], each a map key -> item
  calls,   \* the generation calls: position, arguments, result
  now,     \* Date.now()
  input,   \* the arguments of a helper computed on its own
  output,  \* what the helper returned
  quest,   \* LingoQuest App: its useState values
  heap,    \* the Topic objects the quest App holds, by reference
  screen,  \* the mounted BattleScreen and its useState values
  timers,  \* the setTimeout callbacks that have not run, in scheduling order
  pending, \* the awaits of the quest App that have not resumed
  log,     \* the outcome callbacks invoked so far, battle by battle
  explore  \* LingoLife App: its useState values and its loads in flight

\* the variables of the two Apps
uiVars == <<quest, heap, screen, timers, pending, log, explore>>

vars == <<app, cache, calls, now, input, output, uiVars>>

\* the Apps are not mounted
NoApp == [mounted |-> FALSE]
UiIdle ==
  /\ quest = NoApp
  /\ heap = <<>>
  /\ screen = NoApp
  /\ timers = <<>>
  /\ pending = <<>>
  /\ log = <<>>
  /\ explore = NoApp

\* A call that has not been issued.  path is the terminal state the call
\* ended in, requests counts its generateContent requests, threw says the
\* returned promise was rejected, write is the outcome of its setItem,
\* after is the set of calls that had returned when this one was issued.
IdleCall ==
  [pc |-> "idle", fn |-> "none", startLevel |-> 0, count |-> 0, name |-> <<>>,
   difficulty |-> EASY, seed |-> 0, requests |-> 0, path |-> "none",
   threw |-> FALSE, write |-> "none", after |-> {}, result |-> <<>>]

\* the call returns value v (the promise resolves) on terminal path p
Return(call, p, v) == [call EXCEPT !.pc = "done", !.path = p, !.result = v]

\* the call ends with an exception (the promise rejects)
Throw(call) == [call EXCEPT !.pc = "done", !.path = "THROW", !.threw = TRUE]

\* await ai.models.generateContent(...): one request, the call is suspended
Await(call) == [call EXCEPT !.pc = "awaiting", !.requests = @ + 1]

\* a call being issued now
NewCall(fn) ==
  [IdleCall EXCEPT !.fn = fn, !.after = {d \in Calls : calls[d].pc = "done"}]

\* calls are issued in the order of their numbers
CanBegin(c) ==
  /\ calls[c].pc = "idle"
  /\ c > 1 => calls[c - 1].pc # "idle"

\* the common head of the cached functions:
\*   const cached = getFromCache(key); if (cached) return cached; try { await ...
lookup(call, store, key, readOk) ==
  LET cachedData == getFromCache(store, key, readOk)
  IN IF cachedData.threw THEN Throw(call)
     ELSE IF cachedData.hit THEN Return(call, "CACHE_HIT", cachedData.value)
     ELSE Await(call)

\* ---------------------------------------------------------------- generateTopics
\* Math.min(Math.floor((startLevel - 1) / 10), WORLD_THEMES.length - 1), 0-based
themeIndex(startLevel) == Min((startLevel - 1) \div 10, Len(WORLD_THEMES) - 1)
currentTheme(startLevel) == WORLD_THEMES[themeIndex(startLevel) + 1]

topicDifficulty(startLevel) ==
  IF startLevel > 50 THEN HARD ELSE IF startLevel > 20 THEN MEDIUM ELSE EASY

\* { ...t, ... }: the fields of t when t is an object; the spread of a number
\* or of null adds nothing
SpreadName(raw, index) ==
  IF raw.elem \in {"obj", "bare"} THEN ModelText(raw.tok, index) ELSE Undefined

\* processedTopics with the first topic open
processedTopicsFirstOpen(raw, startLevel) ==
  [i \in 1..raw.n |->
     [id          |-> <<"topic", startLevel + (i - 1)>>,
      name        |-> SpreadName(raw, i - 1),
      levelNumber |-> startLevel + (i - 1),
      difficulty  |-> topicDifficulty(startLevel),
      isLocked    |-> i # 1,
      chapterName |-> currentTheme(startLevel)]]

\* rawTopics.map((t, index) => ({...t, id, levelNumber, difficulty, isLocked, chapterName}))
\* name stands for the name, description and icon the model wrote
processedTopics(raw, startLevel) ==
  [i \in 1..raw.n |->
     [id          |-> <<"topic", startLevel + (i - 1)>>,
      name        |-> SpreadName(raw, i - 1),
      levelNumber |-> startLevel + (i - 1),
      difficulty  |-> topicDifficulty(startLevel),
      isLocked    |-> TRUE,
      chapterName |-> currentTheme(startLevel)]]

\* the catch block: Array.from({ length: count }).map(...)
fallbackTopics(startLevel, count) ==
  [i \in 1..count |->
     [id          |-> <<"fallback", startLevel + (i - 1)>>,
      name        |-> Text("Zone", 0, startLevel + (i - 1)),
      levelNumber |-> startLevel + (i - 1),
      difficulty  |-> EASY,
      isLocked    |-> TRUE,
      chapterName |-> "Unknown"]]

\* a JSON.stringify that writes the level numbers as null
StringifyTopicsLossy(ts) ==
  [i \in DOMAIN ts |-> [ts[i] EXCEPT !.name = RoundTripField(@), !.levelNumber = 0]]

\* JSON.stringify of a topic list
StringifyTopics(ts) ==
  [i \in DOMAIN ts |-> [ts[i] EXCEPT !.name = RoundTripField(@)]]

\* a catch block that asks the model again
CatchTopicsRetry(call, store) ==
  [call |-> Await(call), store |-> store]

\* a catch block that caches what it returns
CatchTopicsSaving(call, store) ==
  [call  |-> Return(call, "FALLBACK_RETURN", fallbackTopics(call.startLevel, call.count)),
   store |-> [store EXCEPT ![<<call.startLevel, call.count>>] =
                Item(StringifyTopics(fallbackTopics(call.startLevel, call.count)))]]

\* the catch block of generateTopics: the fallback is returned, nothing is saved
CatchTopics(call, store) ==
  [call  |-> Return(call, "FALLBACK_RETURN", fallbackTopics(call.startLevel, call.count)),
   store |-> store]

\* generateTopics after the await: the call as it returns and the store it leaves
generateTopicsResume(call, resp, store, writeOk) ==
  LET parsed == JSONparse(resp.fence, resp.payload, "array")
      rawTopics == parsed.value
  IN IF resp.status = "error" \/ parsed.threw \/ rawTopics.shape # "array"
     THEN \* the request rejected, JSON.parse threw, or rawTopics.map is not a function
          CatchTopics(call, store)
     ELSE LET processed == processedTopics(rawTopics, call.startLevel)
              saved == saveToCache(store, <<call.startLevel, call.count>>,
                                   StringifyTopics(processed), writeOk)
              wcall == [call EXCEPT !.write = saved.write]
          IN IF saved.threw THEN CatchTopics(wcall, saved.store)
             ELSE [call  |-> Return(wcall, "CACHE_AND_RETURN", processed),
                   store |-> saved.store]

\* generateTopics up to the await: cache lookup, then the request
BeginTopics(c, startLevel, count, readOk) ==
  /\ app = "quest"
  /\ CanBegin(c)
  /\ calls' = [calls EXCEPT ![c] =
       lookup([NewCall("generateTopics") EXCEPT !.startLevel = startLevel,
                                                !.count = count],
              cache.topics, <<startLevel, count>>, readOk)]
  /\ UNCHANGED <<app, cache, now, input, output, uiVars>>

ResumeTopics(c, answer, writeOk) ==
  /\ calls[c].pc = "awaiting"
  /\ calls[c].fn = "generateTopics"
  /\ LET out == generateTopicsResume(calls[c], AnswerTo(c, answer), cache.topics, writeOk)
     IN /\ calls' = [calls EXCEPT ![c] = out.call]
        /\ cache' = [cache EXCEPT !.topics = out.store]
  /\ UNCHANGED <<app, now, input, output, uiVars>>

\* ---------------------------------------------------------------- generateQuestions
FallbackTypes == <<READING, LISTENING, WRITING>>
DefaultOptions == <<"Yes", "No", "Maybe", "Unsure">>
FallbackOptions == <<"Word A", "Word B", "Word C", "Word D">>
ModelOptions == <<"opt1", "opt2">>

\* a synthesizer that gives every record of one call the same id
generateFallbackQuestionsOneId(topicName, count, startIndex, clock) ==
  [k \in 1..count |->
     LET id == startIndex + (k - 1)
     IN [id            |-> <<"fallback", clock, startIndex>>,
         type          |-> FallbackTypes[(id % Len(FallbackTypes)) + 1],
         question      |-> Text("Challenge", 0, id + 1),
         about         |-> topicName,
         options       |-> FallbackOptions,
         correctAnswer |-> "Word A"]]

\* a synthesizer whose rotation of types starts at the clock value
generateFallbackQuestionsClocked(topicName, count, startIndex, clock) ==
  [k \in 1..count |->
     LET id == startIndex + (k - 1)
     IN [id            |-> <<"fallback", clock, id>>,
         type          |-> FallbackTypes[((id + clock) % Len(FallbackTypes)) + 1],
         question      |-> Text("Challenge", 0, id + 1),
         about         |-> topicName,
         options       |-> FallbackOptions,
         correctAnswer |-> "Word A"]]

\* generateFallbackQuestions(topicName, count, startIndex) at Date.now() = clock
\* about is the topicName inside the question and the listening text
generateFallbackQuestions(topicName, count, startIndex, clock) ==
  [k \in 1..count |->
     LET id == startIndex + (k - 1)
     IN [id            |-> <<"fallback", clock, id>>,
         type          |-> FallbackTypes[(id % Len(FallbackTypes)) + 1],
         question      |-> Text("Challenge", 0, id + 1),
         about         |-> topicName,
         options       |-> FallbackOptions,
         correctAnswer |-> "Word A"]]

\* one element of rawQuestions as the model wrote it: "obj" is a Reading
\* question with options, "bare" a Listening question without options,
\* a number has no field at all
rawQuestion(raw, i) ==
  [type          |-> CASE raw.elem = "obj"  -> READING
                       [] raw.elem = "bare" -> LISTENING
                       [] OTHER             -> "undefined",
   question      |-> SpreadName(raw, i),
   hasOptions    |-> raw.elem = "obj",
   correctAnswer |-> IF raw.elem \in {"obj", "bare"} THEN "opt1" ELSE "undefined"]

\* rawQuestions.map((q, i) => ({...q, id: `q-${randomSeed}-${i}`,
\*                              options: q.options || [...]}))
processedQuestions(raw, randomSeed) ==
  [k \in 1..raw.n |->
     LET q == rawQuestion(raw, k - 1)
     IN [id            |-> <<"q", randomSeed, k - 1>>,
         type          |-> q.type,
         question      |-> q.question,
         about         |-> <<>>,
         options       |-> IF q.hasOptions THEN ModelOptions ELSE DefaultOptions,
         correctAnswer |-> q.correctAnswer]]

\* the inner try: JSON.parse, the { items: [...] } unwrapping and the reset
\* to [] of whatever is not an array (a parse error and the TypeError of
\* reading .items of null are caught there)
rawQuestionsOf(fence, payload) ==
  LET parsed == JSONparse(fence, payload, "array")
      v == parsed.value
      none == [v EXCEPT !.shape = "array", !.n = 0]
  IN IF parsed.threw THEN none
     ELSE IF v.shape = "array" THEN v
     ELSE IF v.shape = "null" THEN none
     ELSE IF v.shape = "object" /\ v.hasItems THEN [v EXCEPT !.shape = "array"]
     ELSE none

\* a backfill that numbers the synthesized questions from 0
backfillFromZero(processed, topicName, count, clock) ==
  LET filled == IF Len(processed) < count
                THEN processed \o generateFallbackQuestions(
                       topicName, count - Len(processed), 0, clock)
                ELSE processed
  IN IF Len(filled) > count THEN SubSeq(filled, 1, count) ELSE filled

\* a backfill that forgets to trim a surplus
backfillNoTrim(processed, topicName, count, clock) ==
  IF Len(processed) < count
  THEN processed \o generateFallbackQuestions(
         topicName, count - Len(processed), Len(processed), clock)
  ELSE processed

\* the backfill of a shortfall and the trim to exactly count
backfill(processed, topicName, count, clock) ==
  LET filled == IF Len(processed) < count
                THEN processed \o generateFallbackQuestions(
                       topicName, count - Len(processed), Len(processed), clock)
                ELSE processed
  IN IF Len(filled) > count THEN SubSeq(filled, 1, count) ELSE filled

\* `questions_${topicName.replace(/\s+/g, '')}_${difficulty}_${count}`: the
\* key of the question cache of earlier versions; this version has none
questionsKey(topicName, difficulty, count) ==
  <<replaceWsEmpty(topicName), difficulty, count>>
QuestionKeys ==
  { questionsKey(t, d, n) : t \in TopicNames, d \in QuestionDifficulties, n \in Counts }

\* generateQuestions as it was with its cache: the list is saved
generateQuestionsCached(call, resp, store, clock) ==
  LET raw == rawQuestionsOf(resp.fence, resp.payload)
      out == backfill(processedQuestions(raw, call.seed), call.name, call.count, clock)
  IN [call  |-> Return(call, "RETURN", out),
      store |-> [store EXCEPT ![questionsKey(call.name, call.difficulty, call.count)]
                                = Item(out)]]

\* generateQuestions after the await: the call as it returns and the store,
\* which it does not touch
generateQuestionsResume(call, resp, store, clock) ==
  LET raw == rawQuestionsOf(resp.fence, resp.payload)
  IN [call |->
        IF resp.status = "error" \/ (raw.n > 0 /\ raw.elem = "null")
        THEN \* the request rejected, or q.options of a null element threw
             Return(call, "FALLBACK_RETURN",
                    generateFallbackQuestions(call.name, call.count, 0, clock))
        ELSE Return(call, "RETURN",
                    backfill(processedQuestions(raw, call.seed),
                             call.name, call.count, clock)),
      store |-> store]

\* generateQuestions up to the await: no cache, randomSeed = Date.now()
BeginQuestions(c, topicName, difficulty, count) ==
  /\ app = "quest"
  /\ CanBegin(c)
  /\ calls' = [calls EXCEPT ![c] =
       Await([NewCall("generateQuestions") EXCEPT !.name = topicName,
                !.difficulty = difficulty, !.count = count, !.seed = now])]
  /\ UNCHANGED <<app, cache, now, input, output, uiVars>>

ResumeQuestions(c, answer) ==
  /\ calls[c].pc = "awaiting"
  /\ calls[c].fn = "generateQuestions"
  /\ LET out == generateQuestionsResume(calls[c], AnswerTo(c, answer), cache.questions, now)
     IN /\ calls' = [calls EXCEPT ![c] = out.call]
        /\ cache' = [cache EXCEPT !.questions = out.store]
  /\ UNCHANGED <<app, now, input, output, uiVars>>

\* ---------------------------------------------------------------- generateLeaderboard (LingoQuest)
\* `leaderboard_${topicName.replace(/\s+/g, '')}`
leaderboardKey(topicName) == replaceWsEmpty(topicName)
LeaderboardKeys == { leaderboardKey(t) : t \in TopicNames }

\* data.map((d, i) => ({ ...d, rank: i + 1 }))
processedData(raw) ==
  [k \in 1..raw.n |-> [rank |-> k, name |-> SpreadName(raw, k - 1)]]

StringifyLeaderboard(es) ==
  [i \in DOMAIN es |-> [es[i] EXCEPT !.name = RoundTripField(@)]]

\* generateLeaderboard after the await; the catch block returns []
generateLeaderboardResume(call, resp, store, writeOk) ==
  LET parsed == JSONparse(resp.fence, resp.payload, "array")
      data == parsed.value
      caught(cl) == [call |-> Return(cl, "FALLBACK_RETURN", <<>>), store |-> store]
  IN IF resp.status = "error" \/ parsed.threw \/ data.shape # "array"
     THEN caught(call)
     ELSE LET saved == saveToCache(store, leaderboardKey(call.name),
                                   StringifyLeaderboard(processedData(data)), writeOk)
              wcall == [call EXCEPT !.write = saved.write]
          IN IF saved.threw THEN caught(wcall)
             ELSE [call  |-> Return(wcall, "CACHE_AND_RETURN", processedData(data)),
                   store |-> saved.store]

BeginLeaderboard(c, topicName, readOk) ==
  /\ app = "quest"
  /\ CanBegin(c)
  /\ calls' = [calls EXCEPT ![c] =
       lookup([NewCall("generateLeaderboard") EXCEPT !.name = topicName],
              cache.leaderboard, leaderboardKey(topicName), readOk)]
  /\ UNCHANGED <<app, cache, now, input, output, uiVars>>

ResumeLeaderboard(c, answer, writeOk) ==
  /\ calls[c].pc = "awaiting"
  /\ calls[c].fn = "generateLeaderboard"
  /\ LET out == generateLeaderboardResume(calls[c], AnswerTo(c, answer),
                                          cache.leaderboard, writeOk)
     IN /\ calls' = [calls EXCEPT ![c] = out.call]
        /\ cache' = [cache EXCEPT !.leaderboard = out.store]
  /\ UNCHANGED <<app, now, input, output, uiVars>>

\* ---------------------------------------------------------------- generateLocation (LingoLife)
\* a key that drops the whitespace instead of replacing it
locationKeyTrimmed(locationName) ==
  <<"l", "o", "c", "_">> \o replaceWsEmpty(toLowerCase(locationName))

\* `loc_${locationName.toLowerCase().replace(/\s/g, '_')}`
locationKey(locationName) ==
  <<"l", "o", "c", "_">> \o replaceWsUnderscore(toLowerCase(locationName))
LocationKeys == { locationKey(l) : l \in LocationNames }

FallbackTheme == "bg-gray-100"
DefaultTheme  == "bg-slate-50"
Bedroom == <<"B","e","d","r","o","o","m">>

\* one element of data.items as the model wrote it
rawItem(raw, idx) ==
  [name            |-> SpreadName(raw, idx),
   english         |-> SpreadName(raw, idx),
   exampleSentence |-> SpreadName(raw, idx),
   usagePatterns   |-> IF raw.elem = "obj" THEN <<Text("pattern", raw.tok, idx)>> ELSE <<>>]

\* items whose usagePatterns are taken as the model wrote them
locationItemsNoBackfill(raw, clock) ==
  [k \in 1..(IF raw.hasItems THEN raw.n ELSE 0) |->
     LET item == rawItem(raw, k - 1)
     IN [id          |-> <<"item", clock, k - 1>>,
         name        |-> item.name,
         isCollected |-> FALSE,
         wordDetail  |->
           [english         |-> item.english,
            exampleSentence |-> item.exampleSentence,
            usagePatterns   |-> item.usagePatterns]]]

\* (data.items || []).map((item, idx) => ({ id, name, ..., wordDetail }))
locationItems(raw, clock) ==
  [k \in 1..(IF raw.hasItems THEN raw.n ELSE 0) |->
     LET item == rawItem(raw, k - 1)
     IN [id          |-> <<"item", clock, k - 1>>,
         name        |-> item.name,
         isCollected |-> FALSE,
         wordDetail  |->
           [english         |-> item.english,
            exampleSentence |-> item.exampleSentence,
            usagePatterns   |-> IF Len(item.usagePatterns) > 0
                                THEN item.usagePatterns
                                ELSE <<item.exampleSentence>>]]]

\* a Location whose theme is taken as the model wrote it, without the default
locationOfNoDefault(locationName, raw, clock) ==
  [id              |-> locationName,
   name            |-> locationName,
   description     |-> IF raw.shape = "object" /\ raw.desc
                       THEN ModelText(raw.tok, 0) ELSE Undefined,
   backgroundTheme |-> raw.theme,
   items           |-> IF raw.shape = "object" THEN locationItems(raw, clock) ELSE <<>>,
   exits           |-> <<>>]

\* the Location built from the parsed data; a number or an array has none
\* of the fields read
locationOf(locationName, raw, clock) ==
  [id              |-> locationName,
   name            |-> locationName,
   description     |-> IF raw.shape = "object" /\ raw.desc
                       THEN ModelText(raw.tok, 0) ELSE Undefined,
   backgroundTheme |-> IF raw.shape = "object" /\ raw.theme # "undefined"
                       THEN raw.theme ELSE DefaultTheme,
   items           |-> IF raw.shape = "object" THEN locationItems(raw, clock) ELSE <<>>,
   exits           |-> IF raw.shape = "object" /\ raw.exits = "some"
                       THEN << [direction |-> ModelText(raw.tok, 0),
                                targetLocationName |-> Garden] >>
                       ELSE <<>>]

\* the catch block of generateLocation
fallbackLocation(locationName) ==
  [id              |-> locationName,
   name            |-> locationName,
   description     |-> Text("quiet place", 0, 0),
   backgroundTheme |-> FallbackTheme,
   items           |-> <<>>,
   exits           |-> << [direction |-> Text("Go Back", 0, 0),
                           targetLocationName |-> Bedroom] >>]

\* JSON.stringify of a Location
StringifyLocation(loc) ==
  [loc EXCEPT
     !.description = RoundTripField(@),
     !.items = [i \in DOMAIN @ |->
        [@[i] EXCEPT
           !.name = RoundTripField(@),
           !.wordDetail = [@ EXCEPT
              !.english = RoundTripField(@),
              !.exampleSentence = RoundTripField(@),
              !.usagePatterns = [j \in DOMAIN @ |-> RoundTripElem(@[j])]]]]]

\* generateLocation after the await
generateLocationResume(call, resp, store, writeOk, clock) ==
  LET parsed == JSONparse(resp.fence, resp.payload, "object")
      data == parsed.value
      caught(cl) == [call  |-> Return(cl, "FALLBACK_RETURN", fallbackLocation(cl.name)),
                     store |-> store]
  IN IF \/ resp.status = "error"
        \/ parsed.threw
        \/ data.shape = "null"            \* data.description of null
        \/ (data.shape = "object" /\ data.hasItems /\ data.n > 0
              /\ data.elem = "null")      \* item.name of null
     THEN caught(call)
     ELSE LET location == locationOf(call.name, data, clock)
              saved == saveToCache(store, locationKey(call.name),
                                   StringifyLocation(location), writeOk)
              wcall == [call EXCEPT !.write = saved.write]
          IN IF saved.threw THEN caught(wcall)
             ELSE [call  |-> Return(wcall, "CACHE_AND_RETURN", location),
                   store |-> saved.store]

BeginLocation(c, locationName, readOk) ==
  /\ app = "life"
  /\ CanBegin(c)
  /\ calls' = [calls EXCEPT ![c] =
       lookup([NewCall("generateLocation") EXCEPT !.name = locationName],
              cache.loc, locationKey(locationName), readOk)]
  /\ UNCHANGED <<app, cache, now, input, output, uiVars>>

ResumeLocation(c, answer, writeOk) ==
  /\ calls[c].pc = "awaiting"
  /\ calls[c].fn = "generateLocation"
  /\ LET out == generateLocationResume(calls[c], AnswerTo(c, answer), cache.loc,
                                       writeOk, now)
     IN /\ calls' = [calls EXCEPT ![c] = out.call]
        /\ cache' = [cache EXCEPT !.loc = out.store]
  /\ UNCHANGED <<app, now, input, output, uiVars>>

\* ---------------------------------------------------------------- generateLeaderboard (LingoLife)
\* the fixed list of the catch block: ranks 1..5
FallbackLeaderboardSize == 5
fallbackLeaderboard ==
  [k \in 1..FallbackLeaderboardSize |-> [rank |-> k, name |-> Text("player", 0, k)]]

\* data.map((item, index) => ({ rank: index + 1, name: item.name, ... }))
lifeLeaderboard(raw) ==
  [k \in 1..raw.n |-> [rank |-> k, name |-> SpreadName(raw, k - 1)]]

\* generateLeaderboard of LingoLife after the await: no cache
generateLeaderboardLifeResume(call, resp) ==
  LET parsed == JSONparse(resp.fence, resp.payload, "array")
      data == parsed.value
  IN IF \/ resp.status = "error"
        \/ parsed.threw
        \/ data.shape # "array"                 \* data.map is not a function
        \/ (data.n > 0 /\ data.elem = "null")   \* item.name of null
     THEN Return(call, "FALLBACK_RETURN", fallbackLeaderboard)
     ELSE Return(call, "RETURN", lifeLeaderboard(data))

BeginLeaderboardLife(c, topicName) ==
  /\ app = "life"
  /\ CanBegin(c)
  /\ calls' = [calls EXCEPT ![c] =
       Await([NewCall("generateLeaderboardLife") EXCEPT !.name = topicName])]
  /\ UNCHANGED <<app, cache, now, input, output, uiVars>>

ResumeLeaderboardLife(c, answer) ==
  /\ calls[c].pc = "awaiting"
  /\ calls[c].fn = "generateLeaderboardLife"
  /\ calls' = [calls EXCEPT ![c] =
                 generateLeaderboardLifeResume(calls[c], AnswerTo(c, answer))]
  /\ UNCHANGED <<app, cache, now, input, output, uiVars>>

\* ---------------------------------------------------------------- environment
\* the clock advances
Tick ==
  /\ now < MaxClock
  /\ now' = now + 1
  /\ UNCHANGED <<app, cache, calls, input, output, uiVars>>

EmptyCache ==
  [topics      |-> [k \in TopicKeys |-> NoItem],
   leaderboard |-> [k \in LeaderboardKeys |-> NoItem],
   questions   |-> [k \in QuestionKeys |-> NoItem],
   loc         |-> [k \in LocationKeys |-> NoItem]]

\* handleRestart: localStorage.clear() and window.location.reload(); the
\* reload drops every call in flight
handleRestart ==
  /\ app = "quest"
  /\ calls[1].pc # "idle"
  /\ cache' = EmptyCache
  /\ calls' = [c \in Calls |-> IdleCall]
  /\ UNCHANGED <<app, now, input, output, uiVars>>

\* ---------------------------------------------------------------- specification
NoInput  == [fn |-> "none"]
NoOutput == [fn |-> "none"]

Init ==
  /\ app \in {"quest", "life"}
  /\ cache = EmptyCache
  /\ calls = [c \in Calls |-> IdleCall]
  /\ now = 0
  /\ input = NoInput
  /\ output = NoOutput
  /\ UiIdle

Next ==
  \/ \E c \in Calls, s \in TopicStarts, n \in Counts, r \in BOOLEAN : BeginTopics(c, s, n, r)
  \/ \E c \in Calls, resp \in ArrayResponses, w \in BOOLEAN : ResumeTopics(c, resp, w)
  \/ \E c \in Calls, t \in TopicNames, d \in QuestionDifficulties, n \in Counts :
        BeginQuestions(c, t, d, n)
  \/ \E c \in Calls, resp \in ArrayResponses : ResumeQuestions(c, resp)
  \/ \E c \in Calls, t \in TopicNames, r \in BOOLEAN : BeginLeaderboard(c, t, r)
  \/ \E c \in Calls, resp \in ArrayResponses, w \in BOOLEAN : ResumeLeaderboard(c, resp, w)
  \/ \E c \in Calls, l \in LocationNames, r \in BOOLEAN : BeginLocation(c, l, r)
  \/ \E c \in Calls, resp \in SceneResponses, w \in BOOLEAN : ResumeLocation(c, resp, w)
  \/ \E c \in Calls, t \in TopicNames : BeginLeaderboardLife(c, t)
  \/ \E c \in Calls, resp \in ArrayResponses : ResumeLeaderboardLife(c, resp)
  \/ Tick
  \/ handleRestart

Spec == Init /\ [][Next]_vars

\* ---------------------------------------------------------------- helpers on their own
\* The type distribution of generateQuestions and the fallback synthesizer,
\* computed for arguments drawn from bounded sets.
MaxDistCount  == 40    \* largest count the distribution is computed for
MaxSynthCount == 4     \* largest count the synthesizer is called with
MaxStartIndex == 3     \* largest startIndex the synthesizer is called with

Max(a, b) == IF a > b THEN a ELSE b

\* Math.floor(count * 0.3): the double product of an integer count below 10^5
\* and 0.3 has the floor of the exact 3*count/10
floor03(count) == (count * 3) \div 10

\* Math.floor(count * 0.2)
floor02(count) == (count * 2) \div 10

\* the reading count without the minimum of 1
readingCountNoMinimum(count) == floor03(count)

\* Math.max(1, Math.floor(count * 0.3))
readingCount(count) == Max(1, floor03(count))

\* Math.max(1, Math.floor(count * 0.3))
listeningCount(count) == Max(1, floor03(count))

\* Math.max(1, Math.floor(count * 0.2))
speakingCount(count) == Max(1, floor02(count))

\* a writing count computed from its own ratio, not as the remainder
writingCountFromRatio(count) == Max(1, floor02(count))

\* count - readingCount - listeningCount - speakingCount
writingCount(count) ==
  count - readingCount(count) - listeningCount(count) - speakingCount(count)

DistInputs == { [fn |-> "distribution", count |-> n] : n \in 1..MaxDistCount }

SynthInputs ==
  { [fn |-> "generateFallbackQuestions", topicName |-> t, count |-> n,
     startIndex |-> k, clock |-> ck] :
      t \in TopicNames, n \in 1..MaxSynthCount, k \in 0..MaxStartIndex,
      ck \in (0..MaxClock) \X (0..MaxClock) }

\* the answers a generateQuestions call is resumed with: a rejection, a
\* payload that is no array, an array of 0..MaxSynthCount+1 elements
QuestionAnswers ==
  {RequestError} \cup
  { Response("ok", "none", p) :
      p \in PlainPayloads \cup
            { Array(n, e) : n \in 0..(MaxSynthCount + 1), e \in ElemKinds } }

QuestionInputs ==
  { [fn |-> "generateQuestions", topicName |-> t, count |-> n, answer |-> a,
     seed |-> sd, clock |-> ck] :
      t \in TopicNames, n \in 1..MaxSynthCount, a \in QuestionAnswers,
      sd \in 0..MaxClock, ck \in 0..MaxClock }

\* the "Exact distribution logic" of generateQuestions
ComputeDistribution ==
  /\ input.fn = "distribution"
  /\ output = NoOutput
  /\ output' = [fn        |-> "distribution",
                reading   |-> readingCount(input.count),
                listening |-> listeningCount(input.count),
                speaking  |-> speakingCount(input.count),
                writing   |-> writingCount(input.count)]
  /\ UNCHANGED <<app, cache, calls, now, input, uiVars>>

\* generateFallbackQuestions called twice with the same arguments, at the
\* clock values clock[1] and clock[2]
SynthesizeTwice ==
  /\ input.fn = "generateFallbackQuestions"
  /\ output = NoOutput
  /\ output' = [fn     |-> "generateFallbackQuestions",
                first  |-> generateFallbackQuestions(input.topicName, input.count,
                                                     input.startIndex, input.clock[1]),
                second |-> generateFallbackQuestions(input.topicName, input.count,
                                                     input.startIndex, input.clock[2])]
  /\ UNCHANGED <<app, cache, calls, now, input, uiVars>>

\* generateQuestions(topicName, difficulty, count) begun at Date.now() = seed
\* and resumed with the answer at Date.now() = clock
QuestionsFor ==
  /\ input.fn = "generateQuestions"
  /\ output = NoOutput
  /\ LET call == Await([IdleCall EXCEPT !.fn = "generateQuestions",
                                        !.name = input.topicName,
                                        !.count = input.count,
                                        !.seed = input.seed])
         out == generateQuestionsResume(call, AnswerTo(1, input.answer),
                                        EmptyCache.questions, input.clock)
     IN output' = [fn |-> "generateQuestions", path |-> out.call.path,
                   result |-> out.call.result]
  /\ UNCHANGED <<app, cache, calls, now, input, uiVars>>

HelperInit ==
  /\ app = "quest"
  /\ cache = EmptyCache
  /\ calls = [c \in Calls |-> IdleCall]
  /\ now = 0
  /\ input \in DistInputs \cup SynthInputs \cup QuestionInputs
  /\ output = NoOutput
  /\ UiIdle

HelperNext == ComputeDistribution \/ SynthesizeTwice \/ QuestionsFor

HelperSpec == HelperInit /\ [][HelperNext]_vars

\* ================================================================ LingoQuest: the App and a battle
\* The quest App (src/App.tsx) with its BattleScreen.  A step is one task of
\* the event loop: a click, a setTimeout callback, or the continuation of an
\* await, together with the render and the effects that follow it.  Time is
\* counted in half seconds, so that the order of the delayed callbacks is the
\* order of their deadlines.
MaxBattles   == 3   \* handleSelectTopic calls
MaxMisses    == 1   \* questions the player misses (a wrong answer, the time running out)
MaxTimers    == 2   \* delayed callbacks pending when the player answers
MaxTimeLeft  == 4   \* seconds of countdown that are counted one by one
MaxPageLoads == 1   \* times the page is opened again
LongMisses   == 12  \* questions the player misses in a run of one battle

\* The runs explored: one battle with misses down to hp 0 and beyond;
\* MaxBattles battles with MaxMisses misses; one battle without a miss on a
\* page that is opened again.
LongBattle  == [battles |-> 1, misses |-> LongMisses, pages |-> 0]
ManyBattles == [battles |-> MaxBattles, misses |-> MaxMisses, pages |-> 0]
Reopened    == [battles |-> 1, misses |-> 0, pages |-> MaxPageLoads]
Budgets     == {LongBattle, ManyBattles, Reopened}

\* setTimeout delays, in half seconds
CountdownDelay == 2   \* 1000 ms
VictoryDelay   == 3   \* 1500 ms
NextTurnDelay  == 4   \* 2000 ms
DefeatDelay    == 4   \* 2000 ms
ExplainDelay   == 7   \* 3500 ms

INITIAL_STATS == [hp |-> 100, maxHp |-> 100, xp |-> 0, level |-> 1, gold |-> 0]
TopicsPerLoad == 10
MonsterHp     == 100
HealOnReturn  == 20
LevelUpHp     == 20
XpPerLevel    == 150

\* handleSelectTopic: 5 questions, 7 on MEDIUM, 10 on HARD
questionCount(difficulty) ==
  IF difficulty = HARD THEN 10 ELSE IF difficulty = MEDIUM THEN 7 ELSE 5

\* getTimerDuration: 60 seconds, 40 on MEDIUM, 30 on HARD.  Every countdown is
\* longer than every delayed callback (3.5 s at most); the seconds above
\* MaxTimeLeft are not counted.
getTimerDuration(difficulty) ==
  Min(MaxTimeLeft, IF difficulty = HARD THEN 30 ELSE IF difficulty = MEDIUM THEN 40 ELSE 60)

damageToPlayer(difficulty) ==
  IF difficulty = HARD THEN 25 ELSE IF difficulty = MEDIUM THEN 15 ELSE 10

\* Math.ceil(100 / questions.length)
damageToMonster(n) == (MonsterHp + n - 1) \div n

xpGain(difficulty) ==
  IF difficulty = HARD THEN 150 ELSE IF difficulty = MEDIUM THEN 100 ELSE 50
goldGain(difficulty) ==
  IF difficulty = HARD THEN 100 ELSE IF difficulty = MEDIUM THEN 50 ELSE 25

\* localStorage of the quest App: topics_<start>_10 for every start the map can ask for
WorldStarts == 1..(TopicsPerLoad * (MaxBattles + 2) + 1)
WorldCache ==
  [EmptyCache EXCEPT !.topics = [k \in WorldStarts \X {TopicsPerLoad} |-> NoItem]]

\* the answers to a topics request: the request fails, or an array of 1 or 2 topics
WorldAnswers ==
  {RequestError} \cup { Response("ok", "none", Array(n, "obj")) : n \in 1..2 }

\* the call generateTopics(startLevel, 10)
TopicsCall(startLevel) ==
  [IdleCall EXCEPT !.fn = "generateTopics", !.startLevel = startLevel,
                   !.count = TopicsPerLoad]

\* the Topic objects are shared by every array that holds them: an array is a
\* sequence of references into heap
Refs(h, ts) == [i \in 1..Len(ts) |-> Len(h) + i]

\* the values the handlers of one render see
Closure(q) ==
  [topics |-> q.topics, playerStats |-> q.playerStats,
   currentTopic |-> q.currentTopic,
   isLoadingMoreTopics |-> q.isLoadingMoreTopics,
   questions |-> q.battleQuestions]

\* {gameState === BATTLE && currentTopic && <BattleScreen key={id + Date.now()} .../>}
BattleShown(q) == q.gameState = "BATTLE" /\ q.currentTopic # 0

\* a BattleScreen as it mounts: the useState initial values, then the timer
\* effect starts the countdown
Mount(q, h) ==
  [mounted |-> TRUE, currentQuestionIndex |-> 0, monsterHp |-> MonsterHp,
   isAnswering |-> FALSE, feedback |-> "none",
   timeLeft |-> getTimerDuration(h[q.currentTopic].difficulty),
   countdown |-> CountdownDelay]

\* A delayed callback holds the values it reads: onDefeat reads none; onVictory
\* the App values of its render; nextTurn also the question index and the
\* monsterHp of its render.
NoClosure ==
  [topics |-> <<>>, playerStats |-> INITIAL_STATS, currentTopic |-> 0,
   isLoadingMoreTopics |-> FALSE, questions |-> 0]

Timer(kind, delay, live, scr, q, battle) ==
  IF kind = "onDefeat"
  THEN [kind |-> kind, rem |-> delay, live |-> live, index |-> 0, monsterHp |-> 0,
        app |-> NoClosure, battle |-> battle]
  ELSE [kind |-> kind, rem |-> delay, live |-> live,
        index |-> scr.currentQuestionIndex, monsterHp |-> scr.monsterHp,
        app |-> Closure(q), battle |-> battle]

\* The callbacks of an unmounted BattleScreen stay scheduled.  The state
\* updates of its nextTurn are dropped, so that nextTurn does nothing unless
\* it reaches onVictory(): a callback that does nothing is not kept.
StillActs(t) ==
  t.kind # "nextTurn" \/ (t.index >= t.app.questions - 1 /\ t.monsterHp > 0)
Orphan(ts) ==
  LET kept == SelectSeq(ts, StillActs)
  IN [i \in DOMAIN kept |-> [kept[i] EXCEPT !.live = FALSE]]

\* a render of the App that leaves a mounted BattleScreen mounted
AppRenderSameKey(scr, ts, q, h) ==
  IF BattleShown(q) /\ scr.mounted
  THEN [screen |-> scr, timers |-> ts]
  ELSE [screen |-> IF BattleShown(q) THEN Mount(q, h) ELSE NoApp, timers |-> Orphan(ts)]

\* A render of the App, after its state changed: the key of the BattleScreen
\* holds Date.now(), which differs from the key of the render before, so the
\* BattleScreen of the render before unmounts and a new one mounts.
AppRender(scr, ts, q, h) ==
  [screen |-> IF BattleShown(q) THEN Mount(q, h) ELSE NoApp, timers |-> Orphan(ts)]

RemoveAt(s, i) == SubSeq(s, 1, i - 1) \o SubSeq(s, i + 1, Len(s))

\* topics.findIndex(t => t.id === currentTopic.id), 0-based, -1 when none
findIndex(h, ts, ref) ==
  IF \E i \in 1..Len(ts) : h[ts[i]].id = h[ref].id
  THEN (CHOOSE i \in 1..Len(ts) :
          /\ h[ts[i]].id = h[ref].id
          /\ \A j \in 1..(i - 1) : h[ts[j]].id # h[ref].id) - 1
  ELSE -1

\* updated[index].isLocked = false, when updated[index] exists (index 0-based)
unlockAt(h, ts, index) ==
  IF index >= 0 /\ index < Len(ts)
  THEN [h EXCEPT ![ts[index + 1]].isLocked = FALSE]
  ELSE h

\* what getFromCache returns when the key is not stored
NoHit == [threw |-> FALSE, hit |-> FALSE, value |-> <<>>]

\* the continuation of loadMoreTopics after generateTopics returned newTopics:
\* setTopics(prev => [...prev, ...newTopics]); setIsLoadingMoreTopics(false);
\* then the .then callback of handleVictory, when there is one (unlock >= 0)
loadMoreTopicsResume(q, h, newTopics, unlock) ==
  LET all == q.topics \o Refs(h, newTopics)
  IN [quest |-> [q EXCEPT !.topics = all, !.isLoadingMoreTopics = FALSE],
      heap  |-> unlockAt(h \o newTopics, all, unlock)]

\* a loadMoreTopics without its first line, if (isLoadingMoreTopics) return
loadMoreTopicsNoGuard(S, q, h, pend, store, readOk, unlock) ==
  LET nextStartLevel == Len(S.topics) + 1
      cachedData == getFromCache(store, <<nextStartLevel, TopicsPerLoad>>, readOk)
      loading == [q EXCEPT !.isLoadingMoreTopics = TRUE]
  IN IF cachedData.hit
     THEN LET all == loading.topics \o Refs(h, cachedData.value)
          IN [quest |-> [loading EXCEPT !.topics = all, !.isLoadingMoreTopics = FALSE],
              heap |-> unlockAt(h \o cachedData.value, all, unlock),
              pending |-> pend, hit |-> cachedData]
     ELSE [quest |-> loading, heap |-> h,
           pending |-> Append(pend, [kind |-> "more", startLevel |-> nextStartLevel,
                                     unlock |-> unlock, count |-> 0]),
           hit |-> NoHit]

\* loadMoreTopics of the render S, called on the App state q.  It returns at
\* once when S.isLoadingMoreTopics; a cache hit resumes it before any other task.
loadMoreTopics(S, q, h, pend, store, readOk, unlock) ==
  IF S.isLoadingMoreTopics
  THEN [quest |-> q, heap |-> unlockAt(h, q.topics, unlock), pending |-> pend,
        hit |-> NoHit]
  ELSE LET nextStartLevel == Len(S.topics) + 1
           cachedData == getFromCache(store, <<nextStartLevel, TopicsPerLoad>>, readOk)
           loading == [q EXCEPT !.isLoadingMoreTopics = TRUE]
       IN IF cachedData.hit
          THEN LET done == loadMoreTopicsResume(loading, h, cachedData.value, unlock)
               IN [quest |-> done.quest, heap |-> done.heap, pending |-> pend,
                   hit |-> cachedData]
          ELSE [quest |-> loading, heap |-> h,
                pending |-> Append(pend, [kind |-> "more", startLevel |-> nextStartLevel,
                                          unlock |-> unlock, count |-> 0]),
                hit |-> NoHit]

\* a handleReturnToMap that adds the 20 points without the Math.min
returnStatsNoCap(stats) == [stats EXCEPT !.hp = stats.hp + HealOnReturn]

\* handleReturnToMap: hp: Math.min(prev.maxHp, prev.hp + 20)
returnStats(stats) == [stats EXCEPT !.hp = Min(stats.maxHp, stats.hp + HealOnReturn)]

\* handleVictory: the rewards
victoryStats(stats, difficulty) ==
  LET levelUp == stats.xp + xpGain(difficulty) >= stats.level * XpPerLevel
  IN [xp    |-> stats.xp + xpGain(difficulty),
      gold  |-> stats.gold + goldGain(difficulty),
      level |-> IF levelUp THEN stats.level + 1 ELSE stats.level,
      maxHp |-> IF levelUp THEN stats.maxHp + LevelUpHp ELSE stats.maxHp,
      hp    |-> IF levelUp THEN stats.maxHp + LevelUpHp ELSE stats.hp]

\* handleVictory of the render S, called on the App state q
handleVictory(S, q, h, pend, store, readOk) ==
  IF S.currentTopic = 0 THEN [quest |-> q, heap |-> h, pending |-> pend, hit |-> NoHit]
  ELSE
    LET rewarded == [q EXCEPT !.playerStats =
                        victoryStats(S.playerStats, h[S.currentTopic].difficulty)]
        currentIndex == findIndex(h, S.topics, S.currentTopic)
        last == Len(S.topics) - 1
        out ==
          IF currentIndex < last
          THEN LET opened == [rewarded EXCEPT !.topics = S.topics]
                   h1 == unlockAt(h, S.topics, currentIndex + 1)
               IN IF currentIndex >= Len(S.topics) - 3
                  THEN loadMoreTopics(S, opened, h1, pend, store, readOk, -1)
                  ELSE [quest |-> opened, heap |-> h1, pending |-> pend, hit |-> NoHit]
          ELSE loadMoreTopics(S, rewarded, h, pend, store, readOk, currentIndex + 1)
    IN [out EXCEPT !.quest.gameState = "VICTORY"]

\* handleWrongAnswer without the Math.max
newPlayerHpNoFloor(hp, damage) == hp - damage

\* a handleWrongAnswer that takes no hp
newPlayerHpNoDamage(hp, damage) == hp

\* handleWrongAnswer: Math.max(0, playerStats.hp - damageToPlayer)
newPlayerHp(hp, damage) == Max(0, hp - damage)

\* What the log keeps of a run: the outcome callbacks invoked for each battle,
\* the topics handleVictory ran for, the topics the last cache hit of
\* generateTopics returned, whether the player answered a question; and the
\* counters the bounds are about.
NewLog(b) ==
  [battles |-> <<>>, won |-> {}, hit |-> <<>>, answered |-> FALSE,
   pages |-> 0, misses |-> 0, budget |-> b]

Invoked(lg, b, kind) ==
  [lg EXCEPT !.battles[b][kind] = @ + 1]

Won(lg, S, h, cachedData) ==
  [lg EXCEPT !.won = IF S.currentTopic = 0 THEN @ ELSE @ \cup {h[S.currentTopic].id},
             !.hit = IF cachedData.hit THEN cachedData.value ELSE @]

\* the App as it mounts: the useState initial values, then the effect calls
\* loadInitialWorld, which asks generateTopics(1, 10); a cache hit resumes it
\* before any other task
MountApp(store, readOk) ==
  LET q0 == [mounted |-> TRUE, gameState |-> "HOME", topics |-> <<>>,
             playerStats |-> INITIAL_STATS, userProfile |-> FALSE,
             currentTopic |-> 0, battleQuestions |-> 0,
             isLoadingMoreTopics |-> FALSE]
      cachedData == getFromCache(store, <<1, TopicsPerLoad>>, readOk)
      worldTopics == cachedData.value
  IN IF cachedData.hit
     THEN [quest |-> [q0 EXCEPT !.topics = Refs(<<>>, worldTopics)],
           heap |-> unlockAt(worldTopics, Refs(<<>>, worldTopics), 0),
           pending |-> <<>>, hit |-> cachedData]
     ELSE [quest |-> q0, heap |-> <<>>,
           pending |-> <<[kind |-> "initial", startLevel |-> 1, unlock |-> -1,
                          count |-> 0]>>,
           hit |-> NoHit]

QuestInit ==
  /\ app = "quest"
  /\ cache = WorldCache
  /\ calls = [c \in Calls |-> IdleCall]
  /\ now = 0
  /\ input = NoInput
  /\ output = NoOutput
  /\ explore = NoApp
  /\ LET m == MountApp(WorldCache.topics, TRUE)
     IN quest = m.quest /\ heap = m.heap /\ pending = m.pending
  /\ screen = NoApp
  /\ timers = <<>>
  /\ log \in { NewLog(b) : b \in Budgets }

\* the player opens the page again: localStorage is what the page before left
ReloadPage(readOk) ==
  /\ log.pages < log.budget.pages
  /\ LET m == MountApp(cache.topics, readOk)
     IN /\ quest' = m.quest /\ heap' = m.heap /\ pending' = m.pending
        /\ log' = [log EXCEPT !.pages = @ + 1, !.won = {},
                              !.hit = IF m.hit.hit THEN m.hit.value ELSE @]
  /\ screen' = NoApp
  /\ timers' = <<>>
  /\ UNCHANGED <<app, cache, calls, now, input, output, explore>>

\* handleRestart, confirmed: localStorage.clear(), window.location.reload()
RestartWorld ==
  /\ quest.gameState \in {"MAP", "BATTLE"}
  /\ log.pages < log.budget.pages
  /\ LET m == MountApp(WorldCache.topics, TRUE)
     IN quest' = m.quest /\ heap' = m.heap /\ pending' = m.pending
  /\ cache' = WorldCache
  /\ screen' = NoApp
  /\ timers' = <<>>
  /\ log' = [log EXCEPT !.pages = @ + 1, !.won = {}]
  /\ UNCHANGED <<app, calls, now, input, output, explore>>

\* loadInitialWorld after the await
loadInitialWorld(i, answer, writeOk) ==
  /\ i \in DOMAIN pending
  /\ pending[i].kind = "initial"
  /\ LET out == generateTopicsResume(TopicsCall(1), AnswerTo(1, answer),
                                     cache.topics, writeOk)
         worldTopics == out.call.result
         refs == Refs(heap, worldTopics)
     IN /\ cache' = [cache EXCEPT !.topics = out.store]
        /\ heap' = unlockAt(heap \o worldTopics, refs, 0)
        /\ quest' = [quest EXCEPT !.topics = refs]
        /\ screen' = AppRender(screen, timers, quest', heap').screen
        /\ timers' = AppRender(screen, timers, quest', heap').timers
  /\ pending' = RemoveAt(pending, i)
  /\ UNCHANGED <<app, calls, now, input, output, log, explore>>

handleStartClick ==
  /\ quest.gameState = "HOME"
  /\ quest' = [quest EXCEPT !.gameState = IF quest.userProfile THEN "MAP" ELSE "PROFILE"]
  /\ UNCHANGED <<app, cache, calls, now, input, output, heap, screen, timers,
                 pending, log, explore>>

handleCreateProfile ==
  /\ quest.gameState = "PROFILE"
  /\ quest' = [quest EXCEPT !.userProfile = TRUE, !.gameState = "MAP"]
  /\ UNCHANGED <<app, cache, calls, now, input, output, heap, screen, timers,
                 pending, log, explore>>

\* handleSelectTopic up to the await; the map offers the open topics only
handleSelectTopic(p) ==
  /\ quest.gameState = "MAP"
  /\ p \in 1..Len(quest.topics)
  /\ ~heap[quest.topics[p]].isLocked
  /\ Len(log.battles) < log.budget.battles
  /\ quest' = [quest EXCEPT !.currentTopic = quest.topics[p],
                            !.battleQuestions = 0,
                            !.gameState = "LOADING_BATTLE"]
  /\ pending' = Append(pending,
       [kind |-> "questions", startLevel |-> 0, unlock |-> -1,
        count |-> questionCount(heap[quest.topics[p]].difficulty)])
  /\ log' = [log EXCEPT !.battles = Append(@, [onVictory |-> 0, onDefeat |-> 0])]
  /\ screen' = AppRender(screen, timers, quest', heap).screen
  /\ timers' = AppRender(screen, timers, quest', heap).timers
  /\ UNCHANGED <<app, cache, calls, now, input, output, heap, explore>>

\* handleSelectTopic after the await: generateQuestions returned count questions
BattleBegins(i) ==
  /\ i \in DOMAIN pending
  /\ pending[i].kind = "questions"
  /\ quest' = [quest EXCEPT !.battleQuestions = pending[i].count,
                            !.gameState = "BATTLE"]
  /\ pending' = RemoveAt(pending, i)
  /\ screen' = AppRender(screen, timers, quest', heap).screen
  /\ timers' = AppRender(screen, timers, quest', heap).timers
  /\ UNCHANGED <<app, cache, calls, now, input, output, heap, log, explore>>

\* handleWrongAnswer of the mounted BattleScreen: the feedback, the damage
\* through onUpdateStats, and onDefeat or nextTurn scheduled.  The new stats
\* render the App, which mounts a new BattleScreen.
WrongAnswer(answered) ==
  LET topic == heap[quest.currentTopic]
      hp == newPlayerHp(quest.playerStats.hp, damageToPlayer(topic.difficulty))
      t == IF hp = 0
           THEN Timer("onDefeat", DefeatDelay, TRUE, screen, quest, Len(log.battles))
           ELSE Timer("nextTurn", ExplainDelay, TRUE, screen, quest, Len(log.battles))
  IN /\ quest' = [quest EXCEPT !.playerStats.hp = hp]
     /\ timers' = AppRender(screen, Append(timers, t), quest', heap).timers
     /\ screen' = AppRender(screen, Append(timers, t), quest', heap).screen
     /\ log' = [log EXCEPT !.misses = @ + 1, !.answered = @ \/ answered]

\* checkAnswer on a wrong answer
AnswerWrong ==
  /\ screen.mounted
  /\ ~screen.isAnswering
  /\ Len(timers) < MaxTimers
  /\ log.misses < log.budget.misses
  /\ WrongAnswer(TRUE)
  /\ UNCHANGED <<app, cache, calls, now, input, output, heap, pending, explore>>

\* checkAnswer on the correct answer: handleCorrectAnswer
AnswerRight ==
  /\ screen.mounted
  /\ ~screen.isAnswering
  /\ Len(timers) < MaxTimers
  /\ LET newMonsterHp == Max(0, screen.monsterHp - damageToMonster(quest.battleQuestions))
     IN /\ screen' = [screen EXCEPT !.isAnswering = TRUE, !.feedback = "correct",
                                    !.monsterHp = newMonsterHp, !.countdown = -1]
        /\ timers' = Append(timers,
             IF newMonsterHp = 0
             THEN Timer("onVictory", VictoryDelay, TRUE, screen, quest, Len(log.battles))
             ELSE Timer("nextTurn", NextTurnDelay, TRUE, screen, quest, Len(log.battles)))
  /\ log' = [log EXCEPT !.answered = TRUE]
  /\ UNCHANGED <<app, cache, calls, now, input, output, quest, heap, pending, explore>>

\* the countdown: setTimeLeft(prev => prev - 1), then the timer effect, which
\* schedules the next second or, at 0, calls handleWrongAnswer("Time's up!")
Countdown ==
  /\ screen.mounted
  /\ screen.countdown = 0
  /\ IF screen.timeLeft - 1 > 0
     THEN /\ screen' = [screen EXCEPT !.timeLeft = @ - 1, !.countdown = CountdownDelay]
          /\ UNCHANGED <<quest, timers, log>>
     ELSE log.misses < log.budget.misses /\ WrongAnswer(FALSE)
  /\ UNCHANGED <<app, cache, calls, now, input, output, heap, pending, explore>>

\* nextTurn of a BattleScreen that is still mounted, scheduled at question
\* t.index: the state is reset and the next question is shown
nextTurnScreen(scr, t, duration) ==
  IF t.index < t.app.questions - 1
  THEN [scr EXCEPT !.isAnswering = FALSE, !.feedback = "none",
                   !.currentQuestionIndex = @ + 1,
                   !.timeLeft = duration, !.countdown = CountdownDelay]
  ELSE [scr EXCEPT !.isAnswering = FALSE, !.feedback = "none",
                   !.countdown = IF scr.timeLeft > 0 THEN CountdownDelay ELSE -1]

\* a delayed nextTurn runs
NextTurn(i, readOk) ==
  /\ i \in DOMAIN timers
  /\ timers[i].kind = "nextTurn"
  /\ timers[i].rem = 0
  /\ LET t == timers[i]
         rest == RemoveAt(timers, i)
     IN IF t.index < t.app.questions - 1 \/ t.monsterHp <= 0
        THEN \* no outcome: the state of the BattleScreen, when it is mounted
             /\ screen' = IF t.live
                          THEN nextTurnScreen(screen, t,
                                 getTimerDuration(heap[quest.currentTopic].difficulty))
                          ELSE screen
             /\ timers' = rest
             /\ UNCHANGED <<quest, heap, pending, log>>
        ELSE \* the last question: if (monsterHp > 0) onVictory()
             LET out == handleVictory(t.app, quest, heap, pending, cache.topics, readOk)
             IN /\ quest' = out.quest
                /\ heap' = out.heap
                /\ pending' = out.pending
                /\ log' = Won(Invoked(log, t.battle, "onVictory"), t.app, heap, out.hit)
                /\ screen' = AppRender(screen, rest, out.quest, out.heap).screen
                /\ timers' = AppRender(screen, rest, out.quest, out.heap).timers
  /\ UNCHANGED <<app, cache, calls, now, input, output, explore>>

\* the delayed onVictory runs
Victory(i, readOk) ==
  /\ i \in DOMAIN timers
  /\ timers[i].kind = "onVictory"
  /\ timers[i].rem = 0
  /\ LET t == timers[i]
         out == handleVictory(t.app, quest, heap, pending, cache.topics, readOk)
     IN /\ quest' = out.quest
        /\ heap' = out.heap
        /\ pending' = out.pending
        /\ log' = Won(Invoked(log, t.battle, "onVictory"), t.app, heap, out.hit)
        /\ screen' = AppRender(screen, RemoveAt(timers, i), out.quest, out.heap).screen
        /\ timers' = AppRender(screen, RemoveAt(timers, i), out.quest, out.heap).timers
  /\ UNCHANGED <<app, cache, calls, now, input, output, explore>>

\* the delayed onDefeat runs: handleDefeat
Defeat(i) ==
  /\ i \in DOMAIN timers
  /\ timers[i].kind = "onDefeat"
  /\ timers[i].rem = 0
  /\ quest' = [quest EXCEPT !.gameState = "DEFEAT"]
  /\ log' = Invoked(log, timers[i].battle, "onDefeat")
  /\ screen' = AppRender(screen, RemoveAt(timers, i), quest', heap).screen
  /\ timers' = AppRender(screen, RemoveAt(timers, i), quest', heap).timers
  /\ UNCHANGED <<app, cache, calls, now, input, output, heap, pending, explore>>

\* loadMoreTopics after the await
loadMoreTopicsArrive(i, answer, writeOk) ==
  /\ i \in DOMAIN pending
  /\ pending[i].kind = "more"
  /\ LET out == generateTopicsResume(TopicsCall(pending[i].startLevel),
                                     AnswerTo(1, answer), cache.topics, writeOk)
         done == loadMoreTopicsResume(quest, heap, out.call.result, pending[i].unlock)
     IN /\ cache' = [cache EXCEPT !.topics = out.store]
        /\ quest' = done.quest
        /\ heap' = done.heap
        /\ screen' = AppRender(screen, timers, done.quest, done.heap).screen
        /\ timers' = AppRender(screen, timers, done.quest, done.heap).timers
  /\ pending' = RemoveAt(pending, i)
  /\ UNCHANGED <<app, calls, now, input, output, log, explore>>

\* handleReturnToMap, from the victory or the defeat screen
handleReturnToMap ==
  /\ quest.gameState \in {"VICTORY", "DEFEAT"}
  /\ quest' = [quest EXCEPT !.playerStats = returnStats(@),
                            !.gameState = "MAP", !.currentTopic = 0]
  /\ screen' = AppRender(screen, timers, quest', heap).screen
  /\ timers' = AppRender(screen, timers, quest', heap).timers
  /\ UNCHANGED <<app, cache, calls, now, input, output, heap, pending, log, explore>>

\* half a second passes: no callback is due
Advance ==
  /\ quest.mounted
  /\ \A i \in DOMAIN timers : timers[i].rem > 0
  /\ screen.mounted => screen.countdown # 0
  /\ timers # <<>> \/ (screen.mounted /\ screen.countdown > 0)
  /\ timers' = [i \in DOMAIN timers |-> [timers[i] EXCEPT !.rem = @ - 1]]
  /\ screen' = IF screen.mounted /\ screen.countdown > 0
               THEN [screen EXCEPT !.countdown = @ - 1] ELSE screen
  /\ UNCHANGED <<app, cache, calls, now, input, output, quest, heap, pending, log, explore>>

QuestNext ==
  \/ \E r \in BOOLEAN : ReloadPage(r)
  \/ RestartWorld
  \/ \E i \in 1..2, a \in WorldAnswers : loadInitialWorld(i, a, TRUE)
  \/ handleStartClick
  \/ handleCreateProfile
  \/ \E p \in 1..(2 * TopicsPerLoad) : handleSelectTopic(p)
  \/ \E i \in 1..(MaxBattles + 2) : BattleBegins(i)
  \/ AnswerWrong
  \/ AnswerRight
  \/ Countdown
  \/ \E i \in 1..(MaxTimers + 1), r \in BOOLEAN : NextTurn(i, r)
  \/ \E i \in 1..(MaxTimers + 1), r \in BOOLEAN : Victory(i, r)
  \/ \E i \in 1..(MaxTimers + 1) : Defeat(i)
  \/ \E i \in 1..(MaxBattles + 2), a \in WorldAnswers : loadMoreTopicsArrive(i, a, TRUE)
  \/ handleReturnToMap
  \/ Advance

QuestSpec == QuestInit /\ [][QuestNext]_vars

\* One battle on a page that stays open.  The countdown and the delayed
\* callbacks are timers of the browser: a callback that is due runs, and time
\* passes when none is due.
BattleInit == QuestInit /\ log.budget = LongBattle

BattleNext ==
  \/ \E i \in 1..2, a \in WorldAnswers : loadInitialWorld(i, a, TRUE)
  \/ handleStartClick
  \/ handleCreateProfile
  \/ \E p \in 1..(2 * TopicsPerLoad) : handleSelectTopic(p)
  \/ \E i \in 1..(MaxBattles + 2) : BattleBegins(i)
  \/ AnswerWrong
  \/ AnswerRight
  \/ Countdown
  \/ \E i \in 1..(MaxTimers + 1), r \in BOOLEAN : NextTurn(i, r)
  \/ \E i \in 1..(MaxTimers + 1), r \in BOOLEAN : Victory(i, r)
  \/ \E i \in 1..(MaxTimers + 1) : Defeat(i)
  \/ \E i \in 1..(MaxBattles + 2), a \in WorldAnswers : loadMoreTopicsArrive(i, a, TRUE)
  \/ handleReturnToMap
  \/ Advance

FairBattleSpec ==
  /\ BattleInit
  /\ [][BattleNext]_vars
  /\ WF_vars(Advance)
  /\ WF_vars(Countdown)
  /\ WF_vars(\E i \in 1..(MaxTimers + 1), r \in BOOLEAN : NextTurn(i, r))
  /\ WF_vars(\E i \in 1..(MaxTimers + 1), r \in BOOLEAN : Victory(i, r))
  /\ WF_vars(\E i \in 1..(MaxTimers + 1) : Defeat(i))

\* ---------------------------------------------------------------- LingoLife App (components/MapScreen.tsx)
\* The exploration App: gameState, currentLocationId, currentLocationData,
\* selectedItem, isLoading, and the loadLocation calls suspended at their
\* await.  currentLocationData is <<>> for null and <<location>> otherwise.
\* A step is one task of the event loop: a click or the continuation of a
\* loadLocation, together with the render and the effect that follow it.
MaxLoads == 3      \* generateContent requests of the exploration App in one run

MyBedroom == <<"M","y"," ","B","e","d","r","o","o","m">>
ExploreNames == {MyBedroom, Garden, Bedroom}
ExploreCache ==
  [EmptyCache EXCEPT !.loc = [k \in {locationKey(l) : l \in ExploreNames} |-> NoItem]]

\* the answers to a generateLocation request: the rejection, a scene with one
\* item and an exit, a scene with neither
ExploreAnswers ==
  {RequestError,
   Response("ok", "none", Payload("object", TRUE, TRUE, 1, "obj", "bg-blue-50", "some")),
   Response("ok", "none", Payload("object", TRUE, FALSE, 0, "obj", "undefined", "absent"))}

LocationCall(id) == [IdleCall EXCEPT !.fn = "generateLocation", !.name = id]

\* const data = await generateLocation(id); setCurrentLocationData(data);
\* setIsLoading(false): the load whose result arrives is not compared with
\* currentLocationId
loadLocationResume(e, data) ==
  [e EXCEPT !.currentLocationData = <<data>>, !.isLoading = FALSE]

\* loadLocation(id) up to its await: setIsLoading(true), then generateLocation
\* reads the cache; a hit resolves the call before any other task
loadLocation(e, store, id, readOk) ==
  LET call == lookup(LocationCall(id), store, locationKey(id), readOk)
  IN IF call.pc = "done"
     THEN loadLocationResume(e, call.result)
     ELSE [e EXCEPT !.isLoading = TRUE,
                    !.loads = Append(@, [id |-> id, request |-> e.requests + 1]),
                    !.requests = @ + 1]

\* useEffect(..., [gameState, currentLocationId]) after the render that
\* follows the state change of e into f
locationEffect(e, f, store, readOk) ==
  IF /\ f.gameState = "EXPLORING"
     /\ <<f.gameState, f.currentLocationId>> # <<e.gameState, e.currentLocationId>>
  THEN loadLocation(f, store, f.currentLocationId, readOk)
  ELSE f

\* isLoading ? loader : currentLocationData ? <SceneView .../> : null
SceneShown(e) ==
  /\ e.mounted
  /\ e.gameState \in {"EXPLORING", "EXAMINING"}
  /\ ~e.isLoading
  /\ e.currentLocationData # <<>>

\* the scene takes clicks while no ObjectDetail covers it
SceneClickable(e) == SceneShown(e) /\ e.gameState = "EXPLORING"

ExploreInit ==
  /\ app = "life"
  /\ cache = ExploreCache
  /\ calls = [c \in Calls |-> IdleCall]
  /\ now = 0
  /\ input = NoInput
  /\ output = NoOutput
  /\ quest = NoApp
  /\ heap = <<>>
  /\ screen = NoApp
  /\ timers = <<>>
  /\ pending = <<>>
  /\ log = <<>>
  /\ explore = [mounted |-> TRUE, gameState |-> "HOME",
                currentLocationId |-> MyBedroom, currentLocationData |-> <<>>,
                selectedItem |-> 0, isLoading |-> FALSE,
                loads |-> <<>>, requests |-> 0]

ExploreStep(f, readOk) ==
  LET g == locationEffect(explore, f, cache.loc, readOk)
  IN /\ g.requests <= MaxLoads
     /\ explore' = g
     /\ UNCHANGED <<app, cache, calls, now, input, output, quest, heap, screen,
                    timers, pending, log>>

\* handleStart: the Start button of the home screen
handleStart(readOk) ==
  /\ explore.gameState = "HOME"
  /\ ExploreStep([explore EXCEPT !.gameState = "EXPLORING"], readOk)

\* handleGoHome: the home button of the SceneView
handleGoHome ==
  /\ SceneClickable(explore)
  /\ ExploreStep([explore EXCEPT !.gameState = "HOME",
                                 !.currentLocationId = MyBedroom], TRUE)

\* handleNavigate: an exit of the location the SceneView shows
handleNavigate(x, readOk) ==
  /\ SceneClickable(explore)
  /\ x \in DOMAIN explore.currentLocationData[1].exits
  /\ LET targetId == explore.currentLocationData[1].exits[x].targetLocationName
     IN /\ targetId # explore.currentLocationId
        /\ ExploreStep([explore EXCEPT !.currentLocationId = targetId], readOk)

\* handleItemClick: an item of the location the SceneView shows
handleItemClick(k) ==
  /\ SceneClickable(explore)
  /\ k \in DOMAIN explore.currentLocationData[1].items
  /\ ExploreStep([explore EXCEPT !.selectedItem = k, !.gameState = "EXAMINING"], TRUE)

\* closeDetail: the close button of the ObjectDetail
closeDetail(readOk) ==
  /\ explore.gameState = "EXAMINING"
  /\ ExploreStep([explore EXCEPT !.selectedItem = 0, !.gameState = "EXPLORING"], readOk)

\* the Journal button of the bottom bar: setGameState(NOTEBOOK)
openNotebook ==
  /\ explore.gameState = "EXPLORING"
  /\ ExploreStep([explore EXCEPT !.gameState = "NOTEBOOK"], TRUE)

\* onClose of the Notebook: setGameState(EXPLORING)
closeNotebook(readOk) ==
  /\ explore.gameState = "NOTEBOOK"
  /\ ExploreStep([explore EXCEPT !.gameState = "EXPLORING"], readOk)

\* a loadLocation after its await: generateLocation returns the generated
\* Location, or the fallback one of its catch block
loadLocationArrive(i, answer, writeOk) ==
  /\ i \in DOMAIN explore.loads
  /\ LET load == explore.loads[i]
         out == generateLocationResume(LocationCall(load.id),
                                       AnswerTo(load.request, answer),
                                       cache.loc, writeOk, now)
     IN /\ cache' = [cache EXCEPT !.loc = out.store]
        /\ explore' = loadLocationResume([explore EXCEPT !.loads = RemoveAt(@, i)],
                                         out.call.result)
  /\ UNCHANGED <<app, calls, now, input, output, quest, heap, screen, timers,
                 pending, log>>

ExploreNext ==
  \/ \E r \in BOOLEAN : handleStart(r)
  \/ handleGoHome
  \/ \E x \in 1..1, r \in BOOLEAN : handleNavigate(x, r)
  \/ \E k \in 1..MaxItems : handleItemClick(k)
  \/ \E r \in BOOLEAN : closeDetail(r)
  \/ openNotebook
  \/ \E r \in BOOLEAN : closeNotebook(r)
  \/ \E i \in 1..MaxLoads, a \in ExploreAnswers, w \in BOOLEAN : loadLocationArrive(i, a, w)

ExploreSpec == ExploreInit /\ [][ExploreNext]_vars

\* ---------------------------------------------------------------- properties
Returned(c) == calls[c].pc = "done"
Issued(c)   == calls[c].pc # "idle"
IsCall(c, fn) == Issued(c) /\ calls[c].fn = fn

\* c2 was issued after c1 had returned, by the same function with the same arguments
SameCallAgain(c1, c2) ==
  /\ Returned(c1) /\ Issued(c2)
  /\ c1 \in calls[c2].after
  /\ calls[c1].fn = calls[c2].fn
  /\ calls[c1].startLevel = calls[c2].startLevel
  /\ calls[c1].count = calls[c2].count
  /\ calls[c1].name = calls[c2].name

\* the call wrote its result into the cache
Stored(c) == calls[c].path = "CACHE_AND_RETURN" /\ calls[c].write = "ok"

\* C1: every generateQuestions call that has returned, whatever the external
\* model answered (rejection, unparseable text, a non-array, an array of any
\* length), returned without an exception a list of exactly count questions.
C1_ExactlyCountQuestions ==
  \A c \in Calls :
    (Returned(c) /\ calls[c].fn = "generateQuestions")
      => ~calls[c].threw /\ Len(calls[c].result) = calls[c].count

\* a call for 2 questions returned one question of the model and one backfilled
C1_Witness ==
  \E c \in Calls :
    /\ Returned(c) /\ calls[c].fn = "generateQuestions"
    /\ calls[c].count = 2 /\ Len(calls[c].result) = 2
    /\ calls[c].result[1].id[1] = "q"
    /\ calls[c].result[2].id[1] = "fallback"

\* C2: when the payload is "not json", "{}", "null" or "[1,2,3]",
\* generateTopics returns exactly count fallback topics, generateQuestions
\* returns exactly count questions and generateLocation returns the
\* single-exit fallback location, each without throwing.
MalformedAnswers == { Response("ok", "none", p) : p \in MalformedPayloads }

C2_MalformedPayloadGivesFallback ==
  [][\A c \in Calls, a \in MalformedAnswers, w \in BOOLEAN :
       /\ ResumeTopics(c, a, w) =>
            /\ ~calls'[c].threw
            /\ calls'[c].result = fallbackTopics(calls[c].startLevel, calls[c].count)
       /\ ResumeQuestions(c, a) =>
            /\ ~calls'[c].threw
            /\ Len(calls'[c].result) = calls[c].count
       /\ ResumeLocation(c, a, w) =>
            /\ ~calls'[c].threw
            /\ calls'[c].result = fallbackLocation(calls[c].name)]_vars

\* C3 as claimed: a second generateTopics call with the same arguments returns
\* the records of the first and the two calls issue at most one request.
C3_SecondCallAlwaysCached ==
  \A c1, c2 \in Calls :
    (SameCallAgain(c1, c2) /\ Returned(c2) /\ calls[c1].fn = "generateTopics")
      => /\ calls[c2].result = calls[c1].result
         /\ calls[c1].requests + calls[c2].requests <= 1

\* no other call than c1 had stored under the key of c1 and c2 when c2 was issued
OnlyWriterBefore(c1, c2) ==
  \A x \in calls[c2].after \ {c1} :
    ~(Stored(x) /\ calls[x].fn = calls[c1].fn
                /\ calls[x].startLevel = calls[c1].startLevel
                /\ calls[x].count = calls[c1].count)

\* C3, amended: when the first generateTopics call stored its records (it
\* ended on the cache-and-return path and the write succeeded) and the second
\* call's cache read succeeds, the second call returns records identical to
\* the first's and the two calls issue exactly one request; when the first
\* call stored nothing (fallback path, failed write), the second call misses
\* and issues its own request.
C3_CacheIdempotence ==
  \A c1, c2 \in Calls :
    (SameCallAgain(c1, c2) /\ Returned(c2) /\ calls[c1].fn = "generateTopics"
       /\ OnlyWriterBefore(c1, c2))
      => /\ (Stored(c1) /\ calls[c2].path = "CACHE_HIT")
              => /\ calls[c2].result = calls[c1].result
                 /\ calls[c1].requests + calls[c2].requests = 1
         /\ ~Stored(c1)
              => /\ calls[c2].path # "CACHE_HIT"
                 /\ calls[c2].requests = 1

\* a second call answered from the cache with the records of the first
C3_Witness ==
  \E c1, c2 \in Calls :
    /\ SameCallAgain(c1, c2) /\ calls[c1].fn = "generateTopics"
    /\ Stored(c1) /\ Len(calls[c1].result) = 2
    /\ calls[c2].path = "CACHE_HIT"

\* the same name up to letter case and whitespace
SameUpToCaseAndSpace(a, b) ==
  replaceWsEmpty(toLowerCase(a)) = replaceWsEmpty(toLowerCase(b))

\* C4 as claimed: location names that differ only in letter case or
\* whitespace get the same cache key, other names a different one.
C4_KeyIgnoresCaseAndSpace ==
  \A c1, c2 \in Calls :
    (IsCall(c1, "generateLocation") /\ IsCall(c2, "generateLocation"))
      => (SameUpToCaseAndSpace(calls[c1].name, calls[c2].name)
            <=> locationKey(calls[c1].name) = locationKey(calls[c2].name))

\* C4, amended: names that differ only in letter case ("Kitchen", "kitchen")
\* get the same cache key; whitespace is not removed but replaced by "_", so
\* "kitchen " gets another key than "Kitchen"; "Garden" gets another key.
C4_KeyIgnoresCaseOnly ==
  \A c1, c2 \in Calls :
    (IsCall(c1, "generateLocation") /\ IsCall(c2, "generateLocation"))
      => LET n1 == calls[c1].name
             n2 == calls[c2].name
         IN /\ toLowerCase(n1) = toLowerCase(n2)
                 => locationKey(n1) = locationKey(n2)
            /\ (n1 = kitchenSpace /\ n2 \in {Kitchen, kitchen})
                 => locationKey(n1) # locationKey(n2)
            /\ (n1 = Garden /\ n2 # Garden)
                 => locationKey(n1) # locationKey(n2)

\* "Kitchen" was generated and stored, then "kitchen" was answered from the cache
C4_Witness ==
  \E c1, c2 \in Calls :
    /\ calls[c1].fn = "generateLocation" /\ calls[c1].name = Kitchen /\ Stored(c1)
    /\ calls[c2].fn = "generateLocation" /\ calls[c2].name = kitchen
    /\ calls[c2].path = "CACHE_HIT"

\* C5: the topics one generateTopics call returned have the level numbers
\* start, start+1, ..., start+count-1, in this order, whatever the model sent.
C5_ContiguousLevels ==
  \A c \in Calls :
    (Returned(c) /\ calls[c].fn = "generateTopics")
      => /\ Len(calls[c].result) = calls[c].count
         /\ \A i \in DOMAIN calls[c].result :
              calls[c].result[i].levelNumber = calls[c].startLevel + (i - 1)

\* C6: no generation call ends in an exception: whatever the request, the
\* JSON parsing, the cache read and the cache write did, a call that has
\* ended has returned a value.
C6_NoException ==
  \A c \in Calls :
    /\ ~calls[c].threw
    /\ Returned(c) =>
         calls[c].path \in {"CACHE_HIT", "CACHE_AND_RETURN", "RETURN", "FALLBACK_RETURN"}

\* one call returned its records although the cache write failed, another
\* returned the fallback
C6_Witness ==
  \E c1, c2 \in Calls :
    /\ Returned(c1) /\ calls[c1].write = "failed" /\ ~calls[c1].threw
    /\ Returned(c2) /\ calls[c2].path = "FALLBACK_RETURN" /\ ~calls[c2].threw

CachingFunctions == {"generateTopics", "generateLeaderboard", "generateLocation"}

\* C7 as claimed: every call issues at most one request, a call answered from
\* the cache issues none, and every call that asked the model ends either on
\* the cache-and-return path or on the fallback path.
C7_AlwaysCacheOrFallback ==
  \A c \in Calls :
    /\ calls[c].requests <= 1
    /\ calls[c].path = "CACHE_HIT" => calls[c].requests = 0
    /\ (Returned(c) /\ calls[c].path # "CACHE_HIT") =>
         /\ calls[c].requests = 1
         /\ calls[c].path \in {"CACHE_AND_RETURN", "FALLBACK_RETURN"}

\* C7, amended: a call issues at most one request and none after a failure; a
\* call answered from the cache issues none; a call that missed issues exactly
\* one and ends, for generateTopics, generateLocation and the cached
\* generateLeaderboard, either on the cache-and-return path or on the fallback
\* path, and for generateQuestions and the generateLeaderboard without a
\* cache, either by returning the processed answer uncached or on the
\* fallback path.
C7_OneRequestTwoOutcomes ==
  \A c \in Calls :
    /\ calls[c].requests <= 1
    /\ calls[c].pc = "awaiting" => calls[c].requests = 1
    /\ calls[c].path = "CACHE_HIT" => calls[c].requests = 0
    /\ (Returned(c) /\ calls[c].path # "CACHE_HIT") =>
         /\ calls[c].requests = 1
         /\ calls[c].path \in
              (IF calls[c].fn \in CachingFunctions
               THEN {"CACHE_AND_RETURN", "FALLBACK_RETURN"}
               ELSE {"RETURN", "FALLBACK_RETURN"})

\* a call ended on the fallback path after its one request, and the same
\* call issued again asked the model once
C7_Witness ==
  \E c1, c2 \in Calls :
    /\ SameCallAgain(c1, c2)
    /\ calls[c1].fn \in CachingFunctions
    /\ calls[c1].path = "FALLBACK_RETURN" /\ calls[c1].requests = 1
    /\ calls[c2].requests = 1

\* no cached item is fallback content
CacheHoldsNoFallback ==
  /\ \A k \in TopicKeys :
       cache.topics[k].present =>
         \A i \in DOMAIN cache.topics[k].json : cache.topics[k].json[i].id[1] = "topic"
  /\ \A k \in LocationKeys :
       cache.loc[k].present => cache.loc[k].json.backgroundTheme # FallbackTheme

\* a step that ends a call on the fallback path leaves the cache as it was
FallbackStepKeepsCache ==
  \A c \in Calls :
    (calls[c].pc = "awaiting" /\ calls'[c].path = "FALLBACK_RETURN") => cache' = cache

\* C8: the cache never holds fallback content, and a call that ends on the
\* fallback path leaves the cache unchanged.
C8_FallbackNeverCached ==
  []CacheHoldsNoFallback /\ [][FallbackStepKeepsCache]_vars

\* a call ended on the fallback path while the cache held the records of another
C8_Witness ==
  \E c1, c2 \in Calls :
    /\ Stored(c1) /\ c1 \in calls[c2].after
    /\ calls[c2].path = "FALLBACK_RETURN"
    /\ cache # EmptyCache

\* the item the cache holds under the key of the call
KeyItem(call, store) ==
  IF call.fn = "generateTopics" THEN store.topics[<<call.startLevel, call.count>>]
  ELSE IF call.fn = "generateLeaderboard" THEN store.leaderboard[leaderboardKey(call.name)]
  ELSE store.loc[locationKey(call.name)]

\* the next call of the same function with the same arguments, issued on the
\* store with a cache read that succeeds, as far as its await
NextCallOn(call, store) ==
  LET again == [IdleCall EXCEPT !.fn = call.fn, !.startLevel = call.startLevel,
                                !.count = call.count, !.name = call.name]
  IN IF call.fn = "generateTopics"
     THEN lookup(again, store.topics, <<call.startLevel, call.count>>, TRUE)
     ELSE IF call.fn = "generateLeaderboard"
          THEN lookup(again, store.leaderboard, leaderboardKey(call.name), TRUE)
          ELSE lookup(again, store.loc, locationKey(call.name), TRUE)

\* this step resumes call c and its cache write fails
FailedWrite(c) ==
  /\ calls[c].pc = "awaiting"
  /\ calls[c].fn \in CachingFunctions
  /\ calls'[c].write = "failed"

\* the call returned, without an exception, the records it generated
ReturnedGenerated(call) ==
  /\ call.pc = "done" /\ ~call.threw
  /\ call.path = "CACHE_AND_RETURN"
  /\ call.fn = "generateTopics" =>
       \A i \in DOMAIN call.result : call.result[i].id[1] = "topic"
  /\ call.fn = "generateLocation" => call.result # fallbackLocation(call.name)

QuestionsStepKeepsCache ==
  \A c \in Calls :
    (calls'[c].fn = "generateQuestions" /\ calls'[c] # calls[c]) => cache' = cache

\* every generateQuestions call issued its own request, none was answered
\* from the cache
QuestionsAlwaysAsk ==
  \A c \in Calls :
    IsCall(c, "generateQuestions") =>
      calls[c].requests = 1 /\ calls[c].path # "CACHE_HIT"

\* C10: generateQuestions neither reads nor writes the cache: every step of
\* a generateQuestions call leaves the cache as it was, and every call, also
\* one that repeats the arguments of an earlier call, issues its own request.
C10_QuestionsBypassCache ==
  []QuestionsAlwaysAsk /\ [][QuestionsStepKeepsCache]_vars

\* two generateQuestions calls with the same arguments, the second issued
\* after the first had returned, each asked the model once
C10_Witness ==
  \E c1, c2 \in Calls :
    /\ SameCallAgain(c1, c2) /\ Returned(c2)
    /\ calls[c1].fn = "generateQuestions"
    /\ calls[c1].difficulty = calls[c2].difficulty
    /\ calls[c1].path = "RETURN" /\ Len(calls[c1].result) = calls[c1].count
    /\ calls[c1].requests = 1 /\ calls[c2].requests = 1

\* C11: for every count, the reading, listening, speaking and writing counts
\* of the type distribution sum to exactly count.
C11_CountsSumToCount ==
  output.fn = "distribution" =>
    output.reading + output.listening + output.speaking + output.writing = input.count

\* the distribution of 10 questions is 3, 3, 2 and the remainder 2
C11_Witness ==
  /\ output.fn = "distribution" /\ input.count = 10
  /\ output.reading = 3 /\ output.listening = 3
  /\ output.speaking = 2 /\ output.writing = 2

\* C12 as claimed: the reading, listening and speaking counts are
\* floor(count*0.3), floor(count*0.3) and floor(count*0.2).
C12_CountsAreFloors ==
  output.fn = "distribution" =>
    /\ output.reading = (3 * input.count) \div 10
    /\ output.listening = (3 * input.count) \div 10
    /\ output.speaking = input.count \div 5

\* C12, amended: the reading, listening and speaking counts are
\* max(1, floor(count*0.3)), max(1, floor(count*0.3)) and
\* max(1, floor(count*0.2)): the floors from count 4 (reading, listening) and
\* from count 5 (speaking) on, and 1 below.
C12_CountsAreFloorsAtLeastOne ==
  output.fn = "distribution" =>
    /\ output.reading = (IF input.count >= 4 THEN (3 * input.count) \div 10 ELSE 1)
    /\ output.listening = (IF input.count >= 4 THEN (3 * input.count) \div 10 ELSE 1)
    /\ output.speaking = (IF input.count >= 5 THEN input.count \div 5 ELSE 1)

\* for 3 questions the floors are 0 and the counts are 1
C12_Witness ==
  /\ output.fn = "distribution" /\ input.count = 3
  /\ output.reading = 1 /\ output.listening = 1 /\ output.speaking = 1

\* a question with the timestamp part of its id blanked
WithoutTimestamp(q) == [q EXCEPT !.id = <<@[1], 0, @[3]>>]

\* C13: two calls of generateFallbackQuestions with the same topicName, count
\* and startIndex return lists of the same length that agree in every field
\* of every record except the timestamp part of the id.
C13_FallbackSameUpToTimestamp ==
  output.fn = "generateFallbackQuestions" =>
    /\ Len(output.first) = input.count
    /\ Len(output.second) = input.count
    /\ \A k \in 1..input.count :
         WithoutTimestamp(output.first[k]) = WithoutTimestamp(output.second[k])

\* two calls at different clock values returned lists that differ, in the id
C13_Witness ==
  /\ output.fn = "generateFallbackQuestions"
  /\ input.count = 3 /\ input.clock[1] # input.clock[2]
  /\ output.first # output.second
  /\ output.first[1].id[2] # output.second[1].id[2]

\* C14: every Reading or Listening question a generateQuestions call returned
\* has its correctAnswer among its options, the questions that got the
\* placeholder options and the fallback questions included.
C14_AnswerAmongOptions ==
  \A c \in Calls :
    (Returned(c) /\ calls[c].fn = "generateQuestions") =>
      \A i \in DOMAIN calls[c].result :
        LET q == calls[c].result[i]
        IN q.type \in {READING, LISTENING} =>
             \E j \in DOMAIN q.options : q.options[j] = q.correctAnswer

\* every item of every Location a generateLocation call returned has a
\* usagePatterns list that is not empty
UsagePatternsNeverEmpty ==
  \A c \in Calls :
    (Returned(c) /\ calls[c].fn = "generateLocation" /\ ~calls[c].threw) =>
      \A i \in DOMAIN calls[c].result.items :
        Len(calls[c].result.items[i].wordDetail.usagePatterns) > 0

\* in a Location a call built, a usagePatterns list holds the patterns the
\* model wrote or, when it wrote none, the item's exampleSentence alone
UsagePatternsBackfilled ==
  \A c \in Calls :
    (Returned(c) /\ calls[c].fn = "generateLocation"
       /\ calls[c].path = "CACHE_AND_RETURN") =>
      \A i \in DOMAIN calls[c].result.items :
        LET d == calls[c].result.items[i].wordDetail
        IN \/ \A j \in DOMAIN d.usagePatterns : d.usagePatterns[j].src = "pattern"
           \/ d.usagePatterns = <<d.exampleSentence>>

\* C15: every item of every Location built by generateLocation has a
\* non-empty usagePatterns list; when the model supplied none or an empty
\* one, it is the one-element list holding the item's exampleSentence.
C15_UsagePatternsNonEmpty ==
  UsagePatternsNeverEmpty /\ UsagePatternsBackfilled

\* a Location was built with an item that got its exampleSentence as its only
\* usage pattern
C15_Witness ==
  \E c \in Calls :
    /\ Returned(c) /\ calls[c].fn = "generateLocation"
    /\ calls[c].path = "CACHE_AND_RETURN"
    /\ Len(calls[c].result.items) > 0
    /\ LET d == calls[c].result.items[1].wordDetail
       IN d.exampleSentence.src = "model" /\ d.usagePatterns = <<d.exampleSentence>>

\* C16: once a Location is stored under a key, the entry is never
\* overwritten until the cache is cleared, also with several calls for the
\* key in flight: no step changes an entry that is present.
C16_StoredLocationNeverOverwritten ==
  [][\A k \in LocationKeys :
       (cache.loc[k].present /\ cache' # EmptyCache) => cache'.loc[k] = cache.loc[k]]_vars

\* C17 as claimed: every Location a generateLocation call returned, on the
\* success, cache-hit and fallback paths, has a backgroundTheme of the
\* schema's enumerated set.
C17_ThemeAlwaysInEnum ==
  \A c \in Calls :
    (Returned(c) /\ calls[c].fn = "generateLocation" /\ ~calls[c].threw) =>
      calls[c].result.backgroundTheme \in Themes

\* the fallback Location has the theme "bg-gray-100", which is not in the
\* enumerated set; a built or cached Location never has it
ThemeOfPath ==
  /\ FallbackTheme \notin Themes
  /\ DefaultTheme \in Themes
  /\ \A c \in Calls :
       (Returned(c) /\ calls[c].fn = "generateLocation") =>
         /\ calls[c].path = "FALLBACK_RETURN" =>
              calls[c].result.backgroundTheme = FallbackTheme
         /\ calls[c].path \in {"CACHE_AND_RETURN", "CACHE_HIT"} =>
              calls[c].result.backgroundTheme \in Themes \cup {OffSchemaTheme}

\* answers with a description and no items, one for each theme drawn
ThemedAnswers ==
  { Response("ok", "none", Payload("object", TRUE, FALSE, 0, "obj", th, "absent")) :
      th \in DrawnThemes }

\* a step that builds a Location gives it the theme the model wrote, or
\* "bg-slate-50" when it wrote none
ThemeFromAnswer ==
  \A c \in Calls, a \in ThemedAnswers, w \in BOOLEAN :
    ResumeLocation(c, a, w) =>
      /\ calls'[c].path = "CACHE_AND_RETURN"
      /\ calls'[c].result.backgroundTheme =
           (IF a.payload.theme = "undefined" THEN "bg-slate-50" ELSE a.payload.theme)
      /\ a.payload.theme \in Themes \cup {"undefined"} =>
           calls'[c].result.backgroundTheme \in Themes

\* C17, amended: a Location built on the success path has the theme the
\* model wrote, which is in the enumerated set when the model kept to the
\* schema (the code does not validate it), or "bg-slate-50", a member of the
\* set, when it wrote none; the fallback Location has "bg-gray-100", which
\* is not in the set.
C17_ThemeBySource ==
  []ThemeOfPath /\ [][ThemeFromAnswer]_vars

\* one call returned the fallback Location in gray, another built a Location
\* with the default theme
C17_Witness ==
  \E c1, c2 \in Calls :
    /\ Returned(c1) /\ calls[c1].fn = "generateLocation"
    /\ calls[c1].path = "FALLBACK_RETURN"
    /\ calls[c1].result.backgroundTheme = "bg-gray-100"
    /\ Returned(c2) /\ calls[c2].fn = "generateLocation"
    /\ calls[c2].path = "CACHE_AND_RETURN"
    /\ calls[c2].result.description.src = "model"
    /\ calls[c2].result.backgroundTheme = "bg-slate-50"

\* C18: every topic of a successful generateTopics call has as chapterName
\* the theme of the 10-level band of its own levelNumber, also when the batch
\* crosses a band boundary.
C18_ChapterOfOwnLevel ==
  \A c \in Calls :
    (Returned(c) /\ calls[c].fn = "generateTopics"
       /\ calls[c].path = "CACHE_AND_RETURN") =>
      \A i \in DOMAIN calls[c].result :
        LET L == calls[c].result[i].levelNumber
        IN calls[c].result[i].chapterName =
             WORLD_THEMES[Min((L - 1) \div 10, Len(WORLD_THEMES) - 1) + 1]

\* C19: the ids of the questions one generateQuestions call returned are
\* pairwise distinct, whatever the mix of model-written and backfilled ones.
C19_QuestionIdsDistinct ==
  output.fn = "generateQuestions" =>
    \A i, j \in DOMAIN output.result :
      i # j => output.result[i].id # output.result[j].id

\* two questions of the model followed by two backfilled ones, all made at
\* the same clock value
C19_Witness ==
  /\ output.fn = "generateQuestions" /\ input.count = 4
  /\ input.seed = input.clock
  /\ output.result[2].id[1] = "q" /\ output.result[3].id[1] = "fallback"
  /\ output.result[4].id[1] = "fallback"

\* the number of questions kept from the answer: the elements of an array
\* without null elements; a rejection, a payload that is no array and an
\* array with a null element (the call falls back as a whole) give none
KeptFromAnswer(a) ==
  IF a.status = "ok" /\ a.payload.shape = "array" /\ a.payload.elem # "null"
  THEN a.payload.n ELSE 0

C30_CountsNonNegative ==
  output.fn = "distribution" =>
    /\ output.reading >= 0 /\ output.listening >= 0
    /\ output.speaking >= 0 /\ output.writing >= 0

\* the two calls resolve to the same cache key
SameKey(a, b) ==
  /\ a.fn = b.fn
  /\ a.fn = "generateTopics" => (a.startLevel = b.startLevel /\ a.count = b.count)
  /\ a.fn = "generateLeaderboard" => leaderboardKey(a.name) = leaderboardKey(b.name)
  /\ a.fn = "generateLocation" => locationKey(a.name) = locationKey(b.name)

\* the JSON text of what the call returned
StoredForm(call) ==
  IF call.fn = "generateTopics" THEN StringifyTopics(call.result)
  ELSE IF call.fn = "generateLeaderboard" THEN StringifyLeaderboard(call.result)
  ELSE StringifyLocation(call.result)

\* the records the call returned were written in answer to its own request
OwnResult(c, call) ==
  IF call.fn = "generateLocation"
  THEN call.result.description \in {Undefined, ModelText(c, 0)}
  ELSE \A i \in DOMAIN call.result :
         call.result[i].name \in {Undefined, ModelText(c, i - 1)}

\* c2 asked the model while c1 was in flight, for the same key, and has ended
InFlightTogether(c1, c2) ==
  /\ c1 # c2
  /\ calls[c1].pc = "awaiting" /\ calls[c1].fn \in CachingFunctions
  /\ calls[c2].pc = "done" /\ calls[c2].path # "CACHE_HIT"
  /\ SameKey(calls[c1], calls[c2])
  /\ c2 \notin calls[c1].after

\* C22: two calls for one key in flight at once both missed and both asked
\* the model; each one that succeeds returns the records of its own answer;
\* when the call that ends last stores its records, the cache holds exactly
\* what it returned, whole, and when it stores nothing the cache is as the
\* other call left it.
C22_LastWriterWins ==
  [][\A c1, c2 \in Calls :
       (InFlightTogether(c1, c2) /\ calls'[c1].pc = "done") =>
         /\ calls'[c1].requests = 1 /\ calls[c2].requests = 1
         /\ calls'[c1].path = "CACHE_AND_RETURN" => OwnResult(c1, calls'[c1])
         /\ calls[c2].path = "CACHE_AND_RETURN" => OwnResult(c2, calls[c2])
         /\ IF calls'[c1].write = "ok"
            THEN KeyItem(calls[c1], cache') = Item(StoredForm(calls'[c1]))
            ELSE cache' = cache]_vars

\* two calls for one key, in flight at once, both stored different records
\* and the cache holds those of one of them
C22_Witness ==
  \E c1, c2 \in Calls :
    /\ c1 # c2 /\ calls[c1].fn = "generateTopics" /\ SameKey(calls[c1], calls[c2])
    /\ c1 \notin calls[c2].after /\ c2 \notin calls[c1].after
    /\ Stored(c1) /\ Stored(c2)
    /\ Len(calls[c1].result) = 2 /\ Len(calls[c2].result) = 2
    /\ calls[c1].result # calls[c2].result
    /\ KeyItem(calls[c1], cache) = Item(StoredForm(calls[c1]))

\* ---------------------------------------------------------------- the quest App
Outcomes(b) == log.battles[b].onVictory + log.battles[b].onDefeat

TopicLoads == { i \in DOMAIN pending : pending[i].kind \in {"initial", "more"} }

\* C21: the unlocks of the orchestrator never reach the cache: every topic that
\* generateTopics returns from a cache hit has isLocked = true, and so has
\* every topic the cache holds.
C21_CacheHitReturnsLocked ==
  quest.mounted =>
    /\ \A i \in DOMAIN log.hit : log.hit[i].isLocked
    /\ \A k \in DOMAIN cache.topics :
         cache.topics[k].present =>
           \A i \in DOMAIN cache.topics[k].json : cache.topics[k].json[i].isLocked

\* a cache hit returned topics after the orchestrator had opened its own
\* copies of the topics stored under that key, the second one by a victory
C21_Witness ==
  /\ quest.mounted
  /\ log.hit # <<>>
  /\ Len(quest.topics) >= 2
  /\ \A i \in 1..2 : ~heap[quest.topics[i]].isLocked
  /\ \A i \in 1..2 : \E j \in DOMAIN log.hit : log.hit[j].id = heap[quest.topics[i]].id
  /\ log.won # {}

\* C23: while a BattleScreen is mounted, currentQuestionIndex is within
\* 0 .. questions.length - 1.
C23_QuestionIndexInRange ==
  (quest.mounted /\ screen.mounted) =>
    /\ screen.currentQuestionIndex >= 0
    /\ screen.currentQuestionIndex <= quest.battleQuestions - 1

\* the last question is shown after a miss, and a nextTurn is pending
C23_Witness ==
  /\ quest.mounted /\ screen.mounted
  /\ screen.currentQuestionIndex = quest.battleQuestions - 1
  /\ log.misses > 0
  /\ log.answered
  /\ timers # <<>>

\* C24: for every battle, onVictory and onDefeat are invoked once at most
\* between them.
C24_OneOutcomePerBattle ==
  quest.mounted => \A b \in DOMAIN log.battles : Outcomes(b) <= 1

\* C25: a mounted BattleScreen leads to onVictory or onDefeat being invoked
\* for its battle.
C25_BattleTerminates ==
  (quest.mounted /\ screen.mounted) ~> (log.battles # <<>> /\ Outcomes(1) >= 1)

\* the battle ended in a defeat and the player never answered
C25_Witness ==
  /\ quest.mounted
  /\ quest.gameState = "DEFEAT"
  /\ ~log.answered
  /\ log.battles # <<>> /\ log.battles[1].onDefeat = 1

\* C27: when no topic load is in flight, the topic after each topic that
\* handleVictory ran for is open, if the map has one.
C27_NextTopicOpenAfterVictory ==
  (quest.mounted /\ TopicLoads = {}) =>
    \A i \in 1..(Len(quest.topics) - 1) :
      heap[quest.topics[i]].id \in log.won => ~heap[quest.topics[i + 1]].isLocked

C29_HpWithinBounds ==
  quest.mounted =>
    /\ quest.playerStats.hp >= 0
    /\ quest.playerStats.hp <= quest.playerStats.maxHp

\* the player levelled up after a miss and returned to the map
C29_Witness ==
  /\ quest.mounted
  /\ quest.playerStats.level = 2
  /\ quest.playerStats.hp = quest.playerStats.maxHp
  /\ log.misses > 0
  /\ quest.gameState = "MAP"

\* C26: in the exploration App, whenever no generateLocation call is in flight
\* and a location is displayed, the name of the displayed location equals
\* currentLocationId.
C26_DisplayedIsCurrent ==
  (explore.mounted /\ explore.loads = <<>> /\ SceneShown(explore))
     => explore.currentLocationData[1].name = explore.currentLocationId


====
